---- MODULE Spec2Model ----
(***************************************************************************)
(* flaim-eval: acceptance policy engine (accept.ts), coverage inference    *)
(* (coverage.ts), the Cloudflare log query client (cloudflare-logs.ts),    *)
(* the log merge (logs-merge.ts) and re-enrichment (enrich.ts).            *)
(*                                                                         *)
(* Strings stand for the identifiers of the program (worker names, reason  *)
(* codes, run ids, trace ids).  An absent optional field (undefined) is    *)
(* the string NoValue.  A log message is a sequence of fragments: plain    *)
(* text, or one of the markers the program's regular expressions search    *)
(* for (trace_id=<id>, "trace_id":"<id>", eval=<run id>).  The program     *)
(* treats an absent message and the empty message alike (!message,         *)
(* message || ""): both are the empty sequence NoMessage.                  *)
(*                                                                         *)
(* The specifications share the variables; each holds the variables of    *)
(* the others at their idle values:                                        *)
(*   Spec           accept's runCli over a run directory                   *)
(*   SpecIsolation  analyzeTraceIsolation applied to an event list         *)
(*   SpecFetch      fetchWorkerLogs against a telemetry backend            *)
(*   SpecMerge      mergeServerLogs (logs-merge.ts) applied to mappings    *)
(*   SpecInfer      inferExpectedWorkers applied to a tool-call list       *)
(*   SpecEnrich     the re-enrichment command (enrich.ts), run repeatedly  *)
(*   SpecTraceId    createTraceId (trace.ts) applied to its arguments      *)
(*   SpecLoop       enrichTrace (enrich.ts) with its telemetry queries in  *)
(*                  flight; SpecLoopFair adds the fairness of its steps    *)
(*   SpecWrite      writeTraceArtifact applied to one trace directory      *)
(*   SpecRun        the eval run (run.ts), then accept on the finished run *)
(* SpecEnrich begins with the run of the first scenario (runner.ts), which *)
(* writes the artifact the command then re-enriches.                       *)
(***************************************************************************)
EXTENDS Integers, Sequences, FiniteSets, TLC

VARIABLES
    pc,           \* accept runCli: "start", "loop", "exited"
    runDir,       \* what accept finds on disk: run directory, summary.json, trace ids, absent artifacts
    trace,        \* the trace artifact read in the current loop iteration
    assessments,  \* accept runCli: TraceAssessment[] built by the loop
    acceptance,   \* acceptance-summary.json as written (written = FALSE: no file)
    exitCode,     \* process exit status: NoValue while running, else "0" or "1"
    isoInput,     \* analyzeTraceIsolation: its arguments
    isoResult,    \* analyzeTraceIsolation: its return value (done = FALSE: not called yet)
    env,          \* process.env: telemetry credentials set, legacy run fallback enabled
    fetchPc,      \* fetchWorkerLogs: "init", "waiting", "returned" or "raised"
    wq,           \* per worker: the progress of its queryWorkerLogsForTrace call
    issued,       \* the queries sent so far, as <<worker, query kind>>
    logs,         \* fetchWorkerLogs: the ServerLogs it returned
    mergeIn,      \* mergeServerLogs: the mappings A, B, C it is applied to
    mergeOut,     \* mergeServerLogs: the merges computed from them (done = FALSE: none yet)
    inferIn,      \* inferExpectedWorkers: the tool calls of its argument
    inferOut,     \* inferExpectedWorkers: its return value (done = FALSE: not called yet)
    enPc,         \* enrich runCli: "start", "loop", "attempt", "settled", "exited"
    enEnv,        \* enrich: credentials set, run directory present, FLAIM_EVAL_REENRICH_ATTEMPTS
    disk,         \* per trace id of the run: its trace.json (present = FALSE: no file)
    queue,        \* enrich runCli: the trace ids still to enrich in this pass
    attempt,      \* enrichTrace: attemptsUsed
    selectedLogs, \* enrichTrace: selectedLogs
    lastFetch,    \* enrichTrace: the workers whose queries failed in the last fetchWorkerLogs call
    fetchCount,   \* fetchWorkerLogs calls made by the current enrichTrace call
    clock,        \* the wall clock, in ticks
    tally,        \* enrich runCli: completed and failed
    enExit,       \* enrich: process exit status, NoValue while running
    pass,         \* re-enrichment passes started so far
    before,       \* disk as it was when the current pass started
    traceIdIn,    \* createTraceId: a scenario id, an index and two run ids
    traceIdOut,   \* createTraceId: the trace ids of the two runs (done = FALSE: not called yet)
    loopPc,       \* enrichTrace: "start", "fetching", "sleeping", "settled", "written"
    loopEnv,      \* FLAIM_EVAL_REENRICH_ATTEMPTS, _DELAY_MS and _WINDOW_EXPAND_MS
    loopTrace,    \* the artifact enrichTrace read: timestamp_utc (epoch ms), duration_ms
    loopAttempt,  \* enrichTrace: attempt
    loopCalls,    \* per worker: the state of its queryWorkerLogsForTrace call of this attempt
    inFlight,     \* the telemetry queries sent and not yet answered
    loopCovered,  \* Object.keys(selectedLogs)
    sleepLeft,    \* sleep(delayMs): the time left until the timer fires
    rnArtifact,   \* runScenario: the artifact it is building (present = FALSE: none)
    wrTrace,      \* a trace directory: the server_logs of its trace.json (written = FALSE: no file)
    wrLogsDir,    \* the same directory: the files of logs/, by the name of their service
    wrCount,      \* writeTraceArtifact calls made on that directory
    runPc,        \* run.ts main: "start", "loop", "finished", then "accepted"
    scenarios,    \* run.ts main: the number of scenarios loaded
    manifest,     \* manifest.json: the trace ids of its traces (written = FALSE: no file)
    results,      \* run.ts main: the status of summaryScenarios, "ok" or "error"
    written,      \* the trace ids whose trace.json the run has written
    summary       \* summary.json: completed and errored (written = FALSE: no file)

acceptVars == <<pc, runDir, trace, assessments, acceptance, exitCode>>
isoVars == <<isoInput, isoResult>>
fetchVars == <<env, fetchPc, wq, issued, logs>>
mergeVars == <<mergeIn, mergeOut>>
inferVars == <<inferIn, inferOut>>
enrichVars == <<enPc, enEnv, disk, queue, attempt, selectedLogs, lastFetch, fetchCount,
                clock, tally, enExit, pass, before>>
traceIdVars == <<traceIdIn, traceIdOut>>
loopVars == <<loopPc, loopEnv, loopTrace, loopAttempt, loopCalls, inFlight, loopCovered, sleepLeft>>
runnerVars == <<rnArtifact>>
writeVars == <<wrTrace, wrLogsDir, wrCount>>
runVars == <<runPc, scenarios, manifest, results, written, summary>>
lateVars == <<runnerVars, writeVars, runVars>>
restVars == <<traceIdVars, loopVars, lateVars>>
pureVars == <<isoVars, mergeVars, inferVars>>
oldVars == <<acceptVars, isoVars, fetchVars, mergeVars, inferVars, enrichVars>>
vars == <<oldVars, restVars>>

NoValue == "none"
NoMessage == << >>

-----------------------------------------------------------------------------
(* Bounds of the model *)

\* longest run (number of traces in the manifest) accept is run on
MaxTraces == 5
\* longest tool-call list of a trace artifact
MaxCalls == 2
\* most fragments (markers or text) in one log message
MaxFragments == 1
\* longest event list handed to analyzeTraceIsolation on its own
MaxIsoEvents == 1
\* longest per-worker event list of the mappings mergeServerLogs is applied to
MaxMergeLen == 2
\* longest tool-call list inferExpectedWorkers is applied to on its own
MaxInferCalls == 4
\* most scenarios of an eval run that is followed to its acceptance
MaxScenarios == 3
\* most writeTraceArtifact calls made on one trace directory
MaxWrites == 3
\* most times the re-enrichment command is run on one run directory
MaxPasses == 2
\* last tick of the wall clock
MaxClock == 2
\* the scenarios of a run are numbered 0..MaxIndex
MaxIndex == 12

-----------------------------------------------------------------------------
(* Identifiers *)

RUN_ID == "2026-02-07T02-11-12Z"
OTHER_RUN_ID == "2026-02-06T18-05-00Z"
OTHER_TRACE_ID == "trace_other_999"

\* trace ids of a run, in manifest order (createTraceId numbers them by index)
TraceIdPool ==
    << "trace_s_000", "trace_s_001", "trace_s_002", "trace_s_003",
       "trace_s_004", "trace_s_005", "trace_s_006", "trace_s_007" >>

WORKER_NAMES ==
    << "fantasy-mcp", "espn-client", "yahoo-client", "sleeper-client", "auth-worker" >>

Range(s) == { s[i] : i \in 1..Len(s) }

Workers == Range(WORKER_NAMES)

\* Array.prototype.sort() on strings: the order of the names the program sorts
SortedNames ==
    << "DOWNSTREAM_COVERAGE_ESCALATION", "MISSING_AUTH_WORKER", "MISSING_ESPN_CLIENT",
       "MISSING_FANTASY_MCP", "MISSING_YAHOO_CLIENT", "RUN_HAS_ERRORS", "RUN_ID_MISMATCH",
       "TRACE_CONTAMINATION",
       "auth-worker", "espn-client", "fantasy-mcp", "sleeper-client",
       "trace_other_999", "trace_s_000", "trace_s_001", "trace_s_002", "trace_s_003",
       "trace_s_004", "trace_s_005", "trace_s_006", "trace_s_007",
       "yahoo-client" >>

\* [...set].sort(): the names of S in ascending order
SortStrings(S) ==
    SelectSeq(SortedNames, LAMBDA n : n \in S)

\* array.includes(x)
Includes(s, x) == \E i \in 1..Len(s) : s[i] = x

SeqsUpTo(S, n) == UNION { [1..k -> S] : k \in 0..n }

-----------------------------------------------------------------------------
(* coverage.ts *)

\* a variant that expects "auth-worker" whenever there is any tool call
InferExpectedWorkersAnyCall(toolCalls) ==
    SortStrings(
        {"fantasy-mcp"}
        \cup (IF Len(toolCalls) > 0 THEN {"auth-worker"} ELSE {})
        \cup (IF \E i \in 1..Len(toolCalls) : toolCalls[i].platform = "espn"
              THEN {"espn-client"} ELSE {})
        \cup (IF \E i \in 1..Len(toolCalls) : toolCalls[i].platform = "yahoo"
              THEN {"yahoo-client"} ELSE {}))

InferExpectedWorkers(toolCalls) ==
    SortStrings(
        {"fantasy-mcp"}
        \cup (IF \E i \in 1..Len(toolCalls) : toolCalls[i].tool_name = "get_user_session"
              THEN {"auth-worker"} ELSE {})
        \cup (IF \E i \in 1..Len(toolCalls) : toolCalls[i].platform = "espn"
              THEN {"espn-client"} ELSE {})
        \cup (IF \E i \in 1..Len(toolCalls) : toolCalls[i].platform = "yahoo"
              THEN {"yahoo-client"} ELSE {}))

\* Object.keys(trace.server_logs || {}).sort()
GetActualWorkers(serverLogs) == SortStrings(DOMAIN serverLogs)

\* a variant with the two lists exchanged
GetMissingWorkersSwapped(expectedWorkers, actualWorkers) ==
    SortStrings({ w \in Range(actualWorkers) : ~Includes(expectedWorkers, w) })

GetMissingWorkers(expectedWorkers, actualWorkers) ==
    SortStrings({ w \in Range(expectedWorkers) : ~Includes(actualWorkers, w) })

-----------------------------------------------------------------------------
(* accept.ts: isolation analysis *)

\* a variant whose pattern lacks the JSON form: /trace_id=([A-Za-z0-9_.-]+)/g
ParseTraceIdsEqOnly(message) ==
    IF message = NoMessage THEN << >>
    ELSE LET hits == SelectSeq(message, LAMBDA f : f.kind = "trace_eq")
         IN  [ i \in 1..Len(hits) |-> hits[i].id ]

\* message.matchAll(/trace_id(?:=|":")([A-Za-z0-9_.-]+)/g)
ParseTraceIdsFromMessage(message) ==
    IF message = NoMessage THEN << >>
    ELSE LET hits == SelectSeq(message, LAMBDA f : f.kind \in {"trace_eq", "trace_json"})
         IN  [ i \in 1..Len(hits) |-> hits[i].id ]

\* message.matchAll(/eval=([A-Za-z0-9:T.-]+Z)/g)
ParseRunIdsFromMessage(message) ==
    IF message = NoMessage THEN << >>
    ELSE LET hits == SelectSeq(message, LAMBDA f : f.kind = "eval")
         IN  [ i \in 1..Len(hits) |-> hits[i].id ]

TraceCandidates(event) ==
    (IF event.trace_id # NoValue THEN {event.trace_id} ELSE {})
    \cup Range(ParseTraceIdsFromMessage(event.message))

RunCandidates(event) ==
    (IF event.run_id # NoValue THEN {event.run_id} ELSE {})
    \cup Range(ParseRunIdsFromMessage(event.message))

\* a variant that counts an event only when it has candidates and all of them differ
TraceMismatchAll(event, expectedTraceId) ==
    /\ TraceCandidates(event) # {}
    /\ \A c \in TraceCandidates(event) : c # expectedTraceId

\* [...traceCandidates].some((traceId) => traceId !== expectedTraceId)
TraceMismatch(event, expectedTraceId) ==
    \E c \in TraceCandidates(event) : c # expectedTraceId

\* [...runCandidates].some((runId) => runId !== expectedRunId)
RunMismatch(event, expectedRunId) ==
    \E c \in RunCandidates(event) : c # expectedRunId

\* the for loop of analyzeTraceIsolation: one increment per event that passes the test
AnalyzeTraceIsolation(events, expectedTraceId, expectedRunId) ==
    [ traceMismatchCount |->
        Len(SelectSeq(events, LAMBDA e : TraceMismatch(e, expectedTraceId))),
      runMismatchCount   |->
        Len(SelectSeq(events, LAMBDA e : RunMismatch(e, expectedRunId))) ]

-----------------------------------------------------------------------------
(* accept.ts: per-trace assessment *)

RECURSIVE SumOver(_, _)
\* the accumulation of the loop over Object.values(trace.server_logs)
SumOver(S, f) ==
    IF S = {} THEN 0
    ELSE LET x == CHOOSE y \in S : TRUE IN f[x] + SumOver(S \ {x}, f)

\* trace.enrichment?.expected_workers || inferExpectedWorkers(trace)
ExpectedWorkersOf(artifact) ==
    IF artifact.enrichment.present
    THEN artifact.enrichment.expected_workers
    ELSE InferExpectedWorkers(artifact.tool_calls)

AssessTrace(artifact) ==
    LET expectedWorkers == ExpectedWorkersOf(artifact)
        actualWorkers   == GetActualWorkers(artifact.server_logs)
        missingWorkers  == GetMissingWorkers(expectedWorkers, actualWorkers)
        \* trace.enrichment?.attempts ?? 0
        retryAttempts   == IF artifact.enrichment.present THEN artifact.enrichment.attempts ELSE 0
        serverLogs      == artifact.server_logs
        isolation       == [ w \in DOMAIN serverLogs |->
                               AnalyzeTraceIsolation(serverLogs[w], artifact.trace_id, artifact.run_id) ]
        totalEvents        == SumOver(DOMAIN serverLogs, [ w \in DOMAIN serverLogs |-> Len(serverLogs[w]) ])
        traceMismatchCount ==
            SumOver(DOMAIN serverLogs, [ w \in DOMAIN serverLogs |-> isolation[w].traceMismatchCount ])
        runMismatchCount   ==
            SumOver(DOMAIN serverLogs, [ w \in DOMAIN serverLogs |-> isolation[w].runMismatchCount ])
        failReasons ==
            (IF Includes(missingWorkers, "fantasy-mcp") THEN {"MISSING_FANTASY_MCP"} ELSE {})
            \cup (IF Includes(expectedWorkers, "auth-worker")
                     /\ Includes(missingWorkers, "auth-worker")
                  THEN {"MISSING_AUTH_WORKER"} ELSE {})
            \cup (IF traceMismatchCount > 0 THEN {"TRACE_CONTAMINATION"} ELSE {})
            \cup (IF runMismatchCount > 0 THEN {"RUN_ID_MISMATCH"} ELSE {})
        warnReasons ==
            (IF Includes(expectedWorkers, "espn-client")
                /\ Includes(missingWorkers, "espn-client")
             THEN {"MISSING_ESPN_CLIENT"} ELSE {})
            \cup (IF Includes(expectedWorkers, "yahoo-client")
                     /\ Includes(missingWorkers, "yahoo-client")
                  THEN {"MISSING_YAHOO_CLIENT"} ELSE {})
    IN  [ trace_id         |-> artifact.trace_id,
          retry_attempts   |-> retryAttempts,
          expected_workers |-> expectedWorkers,
          actual_workers   |-> actualWorkers,
          missing_workers  |-> missingWorkers,
          total_events     |-> totalEvents,
          fail_reasons     |-> SortStrings(failReasons),
          warn_reasons     |-> SortStrings(warnReasons) ]

-----------------------------------------------------------------------------
(* accept.ts: run-level aggregation *)

ESCALATION_MIN_TRACES == 2
\* ESCALATION_RATIO = 0.2, as a percentage
ESCALATION_RATIO_PERCENT == 20

\* A bucket (Map<string, Reason>) is a function from the codes it holds to the
\* sorted trace_ids of the reason.
EmptyBucket == [ c \in {} |-> << >> ]

AddReason(bucket, code, traceId) ==
    IF code \in DOMAIN bucket
    THEN IF Includes(bucket[code], traceId)
         THEN bucket
         ELSE [ bucket EXCEPT ![code] = SortStrings(Range(bucket[code]) \cup {traceId}) ]
    ELSE [ c \in DOMAIN bucket \cup {code} |->
             IF c = code THEN << traceId >> ELSE bucket[c] ]

\* bucket.set(code, {code, message, trace_ids})
SetReason(bucket, code, traceIds) ==
    [ c \in DOMAIN bucket \cup {code} |-> IF c = code THEN traceIds ELSE bucket[c] ]

RECURSIVE AddReasons(_, _, _)
AddReasons(bucket, codes, traceId) ==
    IF codes = << >> THEN bucket
    ELSE AddReasons(AddReason(bucket, Head(codes), traceId), Tail(codes), traceId)

RECURSIVE CollectFail(_, _)
\* the loop over assessment.fail_reasons of every assessment, in order
CollectFail(bucket, as) ==
    IF as = << >> THEN bucket
    ELSE CollectFail(AddReasons(bucket, Head(as).fail_reasons, Head(as).trace_id), Tail(as))

RECURSIVE CollectWarn(_, _)
\* the loop over assessment.warn_reasons of every assessment, in order
CollectWarn(bucket, as) ==
    IF as = << >> THEN bucket
    ELSE CollectWarn(AddReasons(bucket, Head(as).warn_reasons, Head(as).trace_id), Tail(as))

\* code === "MISSING_ESPN_CLIENT" || code === "MISSING_YAHOO_CLIENT" for some warn reason
HasDownstreamWarn(assessment) ==
    \/ Includes(assessment.warn_reasons, "MISSING_ESPN_CLIENT")
    \/ Includes(assessment.warn_reasons, "MISSING_YAHOO_CLIENT")

DownstreamWarnTraceCount(as) == Len(SelectSeq(as, HasDownstreamWarn))

\* a variant whose ratio threshold is inclusive
EscalatesInclusive(warnCount, traceCount) ==
    \/ warnCount >= ESCALATION_MIN_TRACES
    \/ (traceCount > 0 /\ warnCount * 100 >= ESCALATION_RATIO_PERCENT * traceCount)

\* downstreamWarnTraceCount >= ESCALATION_MIN_TRACES || downstreamWarnRatio > ESCALATION_RATIO
\* where the ratio is count / length for length > 0 and 0 otherwise.  The quotient of
\* two small integers and the literal 0.2 are both correctly rounded doubles, so the
\* comparison agrees with the exact one.
Escalates(warnCount, traceCount) ==
    \/ warnCount >= ESCALATION_MIN_TRACES
    \/ (traceCount > 0 /\ warnCount * 100 > ESCALATION_RATIO_PERCENT * traceCount)

\* [...bucket.values()].sort((a, b) => a.code.localeCompare(b.code))
SortedReasons(bucket) ==
    LET codes == SortStrings(DOMAIN bucket)
    IN  [ i \in 1..Len(codes) |-> [ code |-> codes[i], trace_ids |-> bucket[codes[i]] ] ]

\* a variant that ignores the errored count
RunErrorBucketNever(errored) == EmptyBucket

\* the run has errored scenarios: failBucket.set("RUN_HAS_ERRORS", ...) with no trace ids
RunErrorBucket(errored) ==
    IF errored > 0 THEN SetReason(EmptyBucket, "RUN_HAS_ERRORS", << >>) ELSE EmptyBucket

FailBucket(errored, as) ==
    LET collected == CollectFail(RunErrorBucket(errored), as)
    IN  IF Escalates(DownstreamWarnTraceCount(as), Len(as))
        THEN SetReason(collected, "DOWNSTREAM_COVERAGE_ESCALATION",
                       LET hit == SelectSeq(as, HasDownstreamWarn)
                       IN  SortStrings({ hit[i].trace_id : i \in 1..Len(hit) }))
        ELSE collected

WarnBucket(as) == CollectWarn(EmptyBucket, as)

\* a variant with the two outcomes exchanged
FinalStatusSwapped(failReasons) == IF Len(failReasons) = 0 THEN "fail" ELSE "pass"

\* failReasons.length === 0 ? "pass" : "fail"
FinalStatus(failReasons) == IF Len(failReasons) = 0 THEN "pass" ELSE "fail"

AcceptanceSummary(errored, as) ==
    LET failReasons == SortedReasons(FailBucket(errored, as))
        warnReasons == SortedReasons(WarnBucket(as))
    IN  [ written      |-> TRUE,
          errored      |-> errored,
          traces       |-> as,
          warnings     |-> Len(warnReasons),
          failures     |-> Len(failReasons),
          fail_reasons |-> failReasons,
          warn_reasons |-> warnReasons,
          final_status |-> FinalStatus(failReasons) ]

NoAcceptance ==
    [ written |-> FALSE, errored |-> 0, traces |-> << >>, warnings |-> 0, failures |-> 0,
      fail_reasons |-> << >>, warn_reasons |-> << >>, final_status |-> NoValue ]

-----------------------------------------------------------------------------
(* Inputs: log events, trace artifacts and run directories *)

\* the fragments a message about trace t may hold
Fragments(t) ==
    { [ kind |-> "text", id |-> NoValue ] }
    \cup [ kind : {"trace_eq", "trace_json"}, id : {t, OTHER_TRACE_ID} ]
    \cup [ kind : {"eval"}, id : {RUN_ID, OTHER_RUN_ID} ]

Messages(t) == SeqsUpTo(Fragments(t), MaxFragments)

\* the isolation-relevant fields of a ServerLogEvent stored under trace t
LogEvents(t) ==
    [ trace_id : {NoValue, t, OTHER_TRACE_ID},
      run_id   : {NoValue, RUN_ID, OTHER_RUN_ID},
      message  : Messages(t) ]

\* an event that carries the ids of its own trace and run and no message
CleanEvent(t) == [ trace_id |-> t, run_id |-> RUN_ID, message |-> NoMessage ]

\* a tool call as coverage inference reads it: its name and its args.platform
ToolCalls ==
    { [ tool_name |-> "get_user_session", platform |-> NoValue ] }
    \cup [ tool_name : {"get_roster"}, platform : {NoValue, "espn", "yahoo", "sleeper"} ]

NoEnrichment == [ present |-> FALSE, expected_workers |-> << >>, attempts |-> 0 ]

\* the enrichment record the harness stores: expected_workers is what
\* inferExpectedWorkers gave for the artifact's own tool calls
Enrichments(toolCalls) ==
    { NoEnrichment,
      [ present |-> TRUE, expected_workers |-> InferExpectedWorkers(toolCalls), attempts |-> 1 ] }

Artifact(t, toolCalls, enrichment, serverLogs) ==
    [ trace_id |-> t, run_id |-> RUN_ID, tool_calls |-> toolCalls,
      enrichment |-> enrichment, server_logs |-> serverLogs ]

\* artifacts that vary coverage: any tool calls, any set of workers with logs,
\* every logged event clean
CoverageArtifacts(t) ==
    UNION { { Artifact(t, calls, enr, [ w \in ws |-> << CleanEvent(t) >> ]) :
                enr \in Enrichments(calls), ws \in SUBSET Workers } :
            calls \in SeqsUpTo(ToolCalls, MaxCalls) }

SessionCall == [ tool_name |-> "get_user_session", platform |-> NoValue ]

\* artifacts that vary isolation: the ingress worker, or the ingress and the auth
\* worker, have logs, and one event is arbitrary
IsolationArtifacts(t) ==
    { Artifact(t, << >>, NoEnrichment, [ w \in {"fantasy-mcp"} |-> << e >> ]) :
        e \in LogEvents(t) }
    \cup
    { Artifact(t, << SessionCall >>, NoEnrichment,
               [ w \in {"fantasy-mcp", "auth-worker"} |->
                   IF w = "fantasy-mcp" THEN << e >> ELSE << CleanEvent(t) >> ]) :
        e \in LogEvents(t) }

\* the artifacts of long runs: clean ingress logs and at most one tool call (session
\* discovery, or a call on espn or yahoo), or no tool call and no logs at all
PolicyArtifacts(t) ==
    { Artifact(t, calls, NoEnrichment, [ w \in {"fantasy-mcp"} |-> << CleanEvent(t) >> ]) :
        calls \in { << >>, << SessionCall >>,
                    << [ tool_name |-> "get_roster", platform |-> "espn" ] >>,
                    << [ tool_name |-> "get_roster", platform |-> "yahoo" ] >> } }
    \cup { Artifact(t, << >>, NoEnrichment, [ w \in {} |-> << >> ]) }

\* what trace.json of trace t may hold in a run of n traces
ArtifactsFor(n, t) ==
    IF n = 1 THEN CoverageArtifacts(t) \cup IsolationArtifacts(t) ELSE PolicyArtifacts(t)

ErroredCounts == {0, 1}

\* the run directory accept is pointed at.  arg: a run id was given; exists: the
\* directory exists; has_summary: summary.json exists; errored: summary.errored;
\* trace_ids: the trace ids extractTraceIds resolves.
UsableRunDirs ==
    UNION { { [ arg |-> TRUE, exists |-> TRUE, has_summary |-> TRUE, errored |-> e,
                trace_ids |-> SubSeq(TraceIdPool, 1, n), missing |-> m ] :
                e \in ErroredCounts, m \in SUBSET Range(SubSeq(TraceIdPool, 1, n)) } :
            n \in 0..MaxTraces }

UnusableRunDirs ==
    { [ arg |-> a, exists |-> x, has_summary |-> h, errored |-> 0, trace_ids |-> << >>,
        missing |-> {} ] :
        a \in BOOLEAN, x \in BOOLEAN, h \in BOOLEAN } \ UsableRunDirs

NoTrace == Artifact(NoValue, << >>, NoEnrichment, [ w \in {} |-> << >> ])

-----------------------------------------------------------------------------
(* cloudflare-logs.ts: the query client's pure parts *)

\* the trace and the run fetchWorkerLogs is called for
FetchTraceId == TraceIdPool[1]
FetchRunId == RUN_ID

\* the queries of one queryWorkerLogsForTrace call: the $metadata.traceId filter, the
\* two trace needles of buildTraceNeedles and the run needle eval=<run id>
TraceNeedles == << "needle_json", "needle_eq" >>
QueryKinds == {"traceId", "needle_json", "needle_eq", "eval"}

\* process.env.FLAIM_EVAL_ALLOW_RUN_FALLBACK === "1"
AllowRunFallback(e) == e.fallback

\* an ObservabilityEvent, by the fields the client reads: $metadata.id, timestamp,
\* $metadata.requestId, $metadata.traceId, source.trace_id, source.run_id,
\* $metadata.message and source.message; $workers.wallTimeMs is 0 unless stated
RawEvent(id, timestamp, requestId, metaTraceId, srcTraceId, srcRunId, metaMessage, srcMessage) ==
    [ id |-> id, timestamp |-> timestamp, requestId |-> requestId,
      metaTraceId |-> metaTraceId, srcTraceId |-> srcTraceId, srcRunId |-> srcRunId,
      metaMessage |-> metaMessage, srcMessage |-> srcMessage, wallTimeMs |-> 0 ]

\* event.$metadata?.traceId || event.source?.trace_id
GetEventTraceId(event) ==
    IF event.metaTraceId # NoValue THEN event.metaTraceId ELSE event.srcTraceId

GetEventRunId(event) == event.srcRunId

\* a variant that also lets through an event without a trace id
HasMatchingTraceOrNone(event, traceId) ==
    GetEventTraceId(event) \in {NoValue, traceId}

HasMatchingTrace(event, traceId) == GetEventTraceId(event) = traceId

\* the run ids hasMatchingRun collects: source.run_id and the eval= markers of
\* $metadata.message and source.message
EventRunCandidates(event) ==
    (IF GetEventRunId(event) # NoValue THEN {GetEventRunId(event)} ELSE {})
    \cup Range(ParseRunIdsFromMessage(event.metaMessage))
    \cup Range(ParseRunIdsFromMessage(event.srcMessage))

HasMatchingRun(event, evalRunId) ==
    IF EventRunCandidates(event) = {} THEN FALSE
    ELSE \A runId \in EventRunCandidates(event) : runId = evalRunId

\* the key dedupeEvents gives an event: id:<$metadata.id>, else
\* fallback:<timestamp>|<requestId>|<message>
EventKey(event) ==
    IF event.id # NoValue
    THEN [ kind |-> "id", id |-> event.id, timestamp |-> NoValue, requestId |-> NoValue,
           message |-> NoMessage ]
    ELSE [ kind |-> "fallback", id |-> NoValue, timestamp |-> event.timestamp,
           requestId |-> event.requestId, message |-> event.metaMessage ]

RECURSIVE DedupeFrom(_, _, _)
\* the loop of dedupeEvents: an event whose key was seen is skipped
DedupeFrom(events, seen, deduped) ==
    IF events = << >> THEN deduped
    ELSE LET key == EventKey(Head(events))
         IN  IF key \in seen
             THEN DedupeFrom(Tail(events), seen, deduped)
             ELSE DedupeFrom(Tail(events), seen \cup {key}, Append(deduped, Head(events)))

DedupeEvents(events) == DedupeFrom(events, {}, << >>)

\* dedupeEvents([...strictTraceEvents, ...traceNeedleBatches.flat()]).filter(...)
StrictEvents(strictTraceEvents, jsonBatch, eqBatch, evalRunId, traceId) ==
    SelectSeq(DedupeEvents(strictTraceEvents \o jsonBatch \o eqBatch),
              LAMBDA event : HasMatchingTrace(event, traceId)
                             /\ HasMatchingRun(event, evalRunId))

\* dedupeEvents(runFallbackEvents).filter(...): the run matches, and the event has no
\* trace id or the target's
FallbackEvents(runFallbackEvents, evalRunId, traceId) ==
    SelectSeq(DedupeEvents(runFallbackEvents),
              LAMBDA event : HasMatchingRun(event, evalRunId)
                             /\ GetEventTraceId(event) \in {NoValue, traceId})

\* the ServerLogEvent of a raw event, read at clock time now.  timestamp: the event's,
\* or the clock's when the event has none; message: event.$metadata?.message ||
\* event.source?.message.  The fields of eventKey the raw events of the model never
\* set (service, phase, tool, status, status_text, duration_ms) are left out; of the
\* fields outside the key, wall_time_ms stands for all.
ToLogEvent(event, now) ==
    [ timestamp    |-> IF event.timestamp # NoValue THEN event.timestamp ELSE now,
      wall_time_ms |-> event.wallTimeMs,
      message      |-> IF event.metaMessage # NoMessage THEN event.metaMessage
                       ELSE event.srcMessage,
      run_id       |-> event.srcRunId,
      trace_id     |-> GetEventTraceId(event),
      request_id   |-> event.requestId ]

\* result.value.events.map(toLogEvent)
ToLogEvents(events, now) == [ i \in 1..Len(events) |-> ToLogEvent(events[i], now) ]

\* the clock reading during the fetchWorkerLogs call of SpecFetch
FetchNow == "now-0"

-----------------------------------------------------------------------------
(* logs-merge.ts: the merge of two ServerLogs mappings *)

\* the key eventKey joins from an event's fields (an absent field and the empty
\* string alike), as a tuple
LogEventKey(event) ==
    << event.timestamp, event.request_id, event.trace_id, event.run_id, event.message >>

RECURSIVE DedupeLogFrom(_, _, _)
\* the loop of dedupeEvents: the first event of a key is kept, later ones are skipped
DedupeLogFrom(events, seen, deduped) ==
    IF events = << >> THEN deduped
    ELSE LET key == LogEventKey(Head(events))
         IN  IF key \in seen
             THEN DedupeLogFrom(Tail(events), seen, deduped)
             ELSE DedupeLogFrom(Tail(events), seen \cup {key}, Append(deduped, Head(events)))

DedupeLogEvents(events) == DedupeLogFrom(events, {}, << >>)

\* a worker of current with events is copied as it is; a worker of incoming with
\* events gets dedupeEvents([...existing, ...events])
MergeServerLogs(current, incoming) ==
    LET kept == { w \in DOMAIN current : Len(current[w]) > 0 }
        added == { w \in DOMAIN incoming : Len(incoming[w]) > 0 }
    IN  [ w \in kept \cup added |->
            IF w \in added
            THEN DedupeLogEvents((IF w \in kept THEN current[w] ELSE << >>) \o incoming[w])
            ELSE current[w] ]

\* the state of a queryWorkerLogsForTrace call.  pc: "trace" (the trace-filter query is
\* awaited), "needles" (Promise.all of the needle queries), "fallback" (the run needle
\* query), "fulfilled" or "rejected"; pending: its queries in flight.
QueryState(pcOf, pending, traceEvents, jsonBatch, eqBatch, events) ==
    [ pc |-> pcOf, pending |-> pending, strictTraceEvents |-> traceEvents,
      jsonBatch |-> jsonBatch, eqBatch |-> eqBatch, events |-> events ]

\* a variant of the join that gives up the whole result when a worker was rejected
JoinAllOrNothing(q) ==
    IF \E w \in DOMAIN q : q[w].pc = "rejected"
    THEN [ w \in {} |-> << >> ]
    ELSE [ w \in { v \in DOMAIN q : q[v].pc = "fulfilled" /\ Len(q[v].events) > 0 } |->
             ToLogEvents(q[w].events, FetchNow) ]

\* the loop over the settled results: a fulfilled worker with events gets an entry
JoinSettled(q) ==
    [ w \in { v \in DOMAIN q : q[v].pc = "fulfilled" /\ Len(q[v].events) > 0 } |->
        ToLogEvents(q[w].events, FetchNow) ]

NoLogs == [ w \in {} |-> << >> ]

FetchIdle ==
    /\ env = [ credentials |-> FALSE, fallback |-> FALSE ]
    /\ fetchPc = "idle"
    /\ wq = [ w \in {} |-> << >> ]
    /\ issued = {}
    /\ logs = NoLogs

\* mergeServerLogs is not being applied
NoMerges == [ done |-> FALSE, aa |-> NoLogs, ab |-> NoLogs, ab_c |-> NoLogs, a_bc |-> NoLogs ]

MergeIdle ==
    /\ mergeIn = [ a |-> NoLogs, b |-> NoLogs, c |-> NoLogs ]
    /\ mergeOut = NoMerges

InferIdle ==
    /\ inferIn = << >>
    /\ inferOut = [ done |-> FALSE, workers |-> << >> ]

\* an environment variable that is not set
Unset == [ set |-> FALSE, halves |-> 0 ]

\* lastFetch before the first fetch of an enrichTrace call.  known records that every
\* event the calls returned so far is one the artifact already stored for its worker.
NoFetch == [ fetched |-> FALSE, failed |-> {}, known |-> TRUE ]

\* every event of the mapping fetched is stored, equal in all fields, in the same
\* worker's list of the mapping stored
AllStored(fetched, stored) ==
    \A w \in DOMAIN fetched :
        \A i \in 1..Len(fetched[w]) :
            /\ w \in DOMAIN stored
            /\ \E j \in 1..Len(stored[w]) : stored[w][j] = fetched[w][i]
NoDisk == [ t \in {} |-> << >> ]

\* the re-enrichment command is not running
EnrichIdle ==
    /\ enPc = "idle"
    /\ enEnv = [ credentials |-> FALSE, runDir |-> FALSE, attempts |-> Unset ]
    /\ disk = NoDisk
    /\ queue = << >>
    /\ attempt = 0
    /\ selectedLogs = NoLogs
    /\ lastFetch = NoFetch
    /\ fetchCount = 0
    /\ clock = 0
    /\ tally = [ completed |-> 0, failed |-> 0 ]
    /\ enExit = NoValue
    /\ pass = 0
    /\ before = NoDisk

\* createTraceId is not being applied
TraceIdIdle ==
    /\ traceIdIn = [ scenarioId |-> << >>, index |-> 0, runId |-> << >>, otherRunId |-> << >> ]
    /\ traceIdOut = [ done |-> FALSE, first |-> << >>, again |-> << >>, second |-> << >> ]

\* enrichTrace is not being followed query by query
LoopIdle ==
    /\ loopPc = "idle"
    /\ loopEnv = [ attempts |-> Unset, delay |-> Unset, expand |-> Unset ]
    /\ loopTrace = [ timestamp |-> 0, duration |-> 0 ]
    /\ loopAttempt = 0
    /\ loopCalls = [ w \in {} |-> "none" ]
    /\ inFlight = {}
    /\ loopCovered = {}
    /\ sleepLeft = 0

\* runScenario is not running
RunnerIdle == rnArtifact = [ present |-> FALSE ]

\* no trace directory is being written on its own
WriteIdle ==
    /\ wrTrace = [ written |-> FALSE ]
    /\ wrLogsDir = [ w \in {} |-> << >> ]
    /\ wrCount = 0

\* no eval run is being followed
RunIdle ==
    /\ runPc = "idle"
    /\ scenarios = 0
    /\ manifest = [ written |-> FALSE, trace_ids |-> << >> ]
    /\ results = << >>
    /\ written = {}
    /\ summary = [ written |-> FALSE, completed |-> 0, errored |-> 0 ]

LateIdle == RunnerIdle /\ WriteIdle /\ RunIdle

RestIdle == TraceIdIdle /\ LoopIdle /\ LateIdle

-----------------------------------------------------------------------------
(* accept.ts: runCli *)

\* a variant that finds a trace.json for every trace id
TraceExistsAlways(dir, traceId) == TRUE

\* fs.existsSync(tracePath)
TraceExists(dir, traceId) == traceId \notin dir.missing

AcceptInit ==
    /\ pc = "start"
    /\ runDir \in UsableRunDirs \cup UnusableRunDirs
    /\ trace = NoTrace
    /\ assessments = << >>
    /\ acceptance = NoAcceptance
    /\ exitCode = NoValue

\* fail(): no run id argument, no run directory or no summary.json
AcceptUsageFail ==
    /\ pc = "start"
    /\ ~(runDir.arg /\ runDir.exists /\ runDir.has_summary)
    /\ pc' = "exited"
    /\ exitCode' = "1"
    /\ UNCHANGED <<runDir, trace, assessments, acceptance, pureVars, fetchVars, enrichVars, restVars>>

\* summary.json is read and the trace ids are resolved
AcceptStart ==
    /\ pc = "start"
    /\ runDir.arg /\ runDir.exists /\ runDir.has_summary
    /\ pc' = "loop"
    /\ UNCHANGED <<runDir, trace, assessments, acceptance, exitCode, pureVars, fetchVars, enrichVars, restVars>>

\* one iteration of the loop over traceIds: trace.json exists and is assessed
AcceptAssessTrace ==
    /\ pc = "loop"
    /\ Len(assessments) < Len(runDir.trace_ids)
    /\ TraceExists(runDir, runDir.trace_ids[Len(assessments) + 1])
    /\ \E artifact \in ArtifactsFor(Len(runDir.trace_ids),
                                    runDir.trace_ids[Len(assessments) + 1]) :
         /\ trace' = artifact
         /\ assessments' = Append(assessments, AssessTrace(artifact))
    /\ UNCHANGED <<pc, runDir, acceptance, exitCode, pureVars, fetchVars, enrichVars, restVars>>

\* one iteration of the loop over traceIds: trace.json does not exist, fail()
AcceptTraceMissing ==
    /\ pc = "loop"
    /\ Len(assessments) < Len(runDir.trace_ids)
    /\ ~TraceExists(runDir, runDir.trace_ids[Len(assessments) + 1])
    /\ pc' = "exited"
    /\ exitCode' = "1"
    /\ UNCHANGED <<runDir, trace, assessments, acceptance, pureVars, fetchVars, enrichVars, restVars>>

\* after the loop: the buckets are filled and acceptance-summary.json is written
AcceptWriteSummary ==
    /\ pc = "loop"
    /\ Len(assessments) = Len(runDir.trace_ids)
    /\ acceptance' = AcceptanceSummary(runDir.errored, assessments)
    /\ pc' = "written"
    /\ UNCHANGED <<runDir, trace, assessments, exitCode, pureVars, fetchVars, enrichVars, restVars>>

\* process.exit(1) when the final status is "fail", else runCli returns
AcceptExit ==
    /\ pc = "written"
    /\ exitCode' = IF acceptance.final_status = "fail" THEN "1" ELSE "0"
    /\ pc' = "exited"
    /\ UNCHANGED <<runDir, trace, assessments, acceptance, pureVars, fetchVars, enrichVars, restVars>>

IsoIdle ==
    /\ isoInput = [ events |-> << >>, trace_id |-> NoValue, run_id |-> NoValue ]
    /\ isoResult = [ done |-> FALSE, traceMismatchCount |-> 0, runMismatchCount |-> 0 ]

Init == AcceptInit /\ IsoIdle /\ FetchIdle /\ MergeIdle /\ InferIdle /\ EnrichIdle /\ RestIdle

Next ==
    \/ AcceptUsageFail
    \/ AcceptStart
    \/ AcceptAssessTrace
    \/ AcceptTraceMissing
    \/ AcceptWriteSummary
    \/ AcceptExit

Spec == Init /\ [][Next]_vars

-----------------------------------------------------------------------------
(* accept.ts: analyzeTraceIsolation on its own *)

AcceptIdle ==
    /\ pc = "idle"
    /\ runDir = [ arg |-> FALSE, exists |-> FALSE, has_summary |-> FALSE, errored |-> 0,
                  trace_ids |-> << >>, missing |-> {} ]
    /\ trace = NoTrace
    /\ assessments = << >>
    /\ acceptance = NoAcceptance
    /\ exitCode = NoValue

IsoInit ==
    /\ RestIdle
    /\ AcceptIdle
    /\ FetchIdle
    /\ MergeIdle
    /\ InferIdle
    /\ EnrichIdle
    /\ isoInput \in [ events : SeqsUpTo(LogEvents(TraceIdPool[1]), MaxIsoEvents),
                      trace_id : {TraceIdPool[1]}, run_id : {RUN_ID} ]
    /\ isoResult = [ done |-> FALSE, traceMismatchCount |-> 0, runMismatchCount |-> 0 ]

IsoAnalyze ==
    /\ ~isoResult.done
    /\ isoResult' =
         LET r == AnalyzeTraceIsolation(isoInput.events, isoInput.trace_id, isoInput.run_id)
         IN  [ done |-> TRUE, traceMismatchCount |-> r.traceMismatchCount,
               runMismatchCount |-> r.runMismatchCount ]
    /\ UNCHANGED <<isoInput, acceptVars, fetchVars, mergeVars, inferVars, enrichVars, restVars>>

IsoNext == IsoAnalyze

SpecIsolation == IsoInit /\ [][IsoNext]_vars

-----------------------------------------------------------------------------
(* cloudflare-logs.ts: fetchWorkerLogs against a telemetry backend *)

Text(x) == [ kind |-> "text", id |-> x ]
EvalMarker(runId) == [ kind |-> "eval", id |-> runId ]
TraceMarker(traceId) == [ kind |-> "trace_eq", id |-> traceId ]

\* the events the backend may hold.  The provider's id, or timestamp, request id and
\* message, identify an event: two events with one key are the same event.
GoodEvent ==
    RawEvent("ev-1", "ts-1", "req-1", FetchTraceId, FetchTraceId, FetchRunId,
             << Text("/mcp") >>, NoMessage)
\* trace id in the source only, run id in the message only
SourceOnlyEvent ==
    RawEvent("ev-2", "ts-2", "req-2", NoValue, FetchTraceId, NoValue,
             << EvalMarker(FetchRunId), TraceMarker(FetchTraceId) >>, NoMessage)
\* an invocation log: the trace id in the metadata and no run id anywhere
NoRunEvent ==
    RawEvent("ev-3", "ts-3", "req-3", FetchTraceId, NoValue, NoValue,
             << Text("POST /mcp") >>, NoMessage)
\* an event of another trace of the same run
CrossTraceEvent ==
    RawEvent("ev-4", "ts-4", "req-4", OTHER_TRACE_ID, OTHER_TRACE_ID, FetchRunId,
             << TraceMarker(OTHER_TRACE_ID) >>, NoMessage)
\* an event of an earlier run that reused the trace id
OldRunEvent ==
    RawEvent("ev-5", "ts-5", "req-5", FetchTraceId, FetchTraceId, OTHER_RUN_ID,
             << Text("/mcp old run") >>, NoMessage)
\* the structured run id is the target's, the source message names another run
MixedRunEvent ==
    RawEvent("ev-6", "ts-6", "req-6", FetchTraceId, NoValue, FetchRunId,
             << Text("retry") >>, << EvalMarker(OTHER_RUN_ID) >>)
\* no trace id, no provider id; the message names the target run
NoTraceEvent ==
    RawEvent(NoValue, "ts-7", "req-7", NoValue, NoValue, NoValue,
             << EvalMarker(FetchRunId) >>, NoMessage)
\* no trace id, no provider id; the message names another run
NoTraceOldRunEvent ==
    RawEvent(NoValue, "ts-8", "req-8", NoValue, NoValue, OTHER_RUN_ID,
             << EvalMarker(OTHER_RUN_ID) >>, NoMessage)
\* the metadata trace id is the target's, the source's is another trace's
MetaOwnSourceOtherEvent ==
    RawEvent("ev-9", "ts-9", "req-9", FetchTraceId, OTHER_TRACE_ID, FetchRunId,
             NoMessage, << Text("routed") >>)

\* an event of the target trace whose message also names the trace it was handed from
ForeignMentionEvent ==
    RawEvent("ev-10", "ts-10", "req-10", FetchTraceId, FetchTraceId, FetchRunId,
             << TraceMarker(FetchTraceId), Text("after"), TraceMarker(OTHER_TRACE_ID) >>,
             NoMessage)

NoEvents == << >>

\* what the backend answers per worker and query when the request succeeds
BackendEvents ==
    [ w \in Workers |->
        [ k \in QueryKinds |->
            IF w = "fantasy-mcp" THEN
                 IF k = "traceId" THEN << GoodEvent, CrossTraceEvent >>
                 ELSE IF k = "needle_json" THEN << GoodEvent, OldRunEvent >>
                 ELSE IF k = "needle_eq" THEN << SourceOnlyEvent >>
                 ELSE << NoTraceEvent, NoTraceOldRunEvent, GoodEvent, CrossTraceEvent >>
            ELSE IF w = "espn-client" THEN << GoodEvent >>
            ELSE IF w = "yahoo-client" THEN
                 IF k = "traceId" THEN << NoRunEvent >>
                 ELSE IF k = "eval" THEN << NoTraceEvent >>
                 ELSE NoEvents
            ELSE IF w = "auth-worker" THEN
                 IF k = "needle_json" THEN << MixedRunEvent, NoTraceEvent >>
                 ELSE IF k = "needle_eq" THEN << MetaOwnSourceOtherEvent, SourceOnlyEvent >>
                 ELSE NoEvents
            ELSE IF k \in {"traceId", "needle_eq"} THEN << ForeignMentionEvent >>
            ELSE NoEvents ] ]

\* a query's outcome: it fails (non-success HTTP response, unsuccessful API result or
\* network error), or it succeeds with the events the backend holds for it
Responses(w, k) ==
    { [ ok |-> FALSE, events |-> NoEvents ],
      [ ok |-> TRUE, events |-> BackendEvents[w][k] ] }

FetchInit ==
    /\ RestIdle
    /\ AcceptIdle
    /\ IsoIdle
    /\ MergeIdle
    /\ InferIdle
    /\ EnrichIdle
    /\ env \in [ credentials : BOOLEAN, fallback : BOOLEAN ]
    /\ fetchPc = "init"
    /\ wq = [ w \in {} |-> << >> ]
    /\ issued = {}
    /\ logs = NoLogs

\* getConfig() throws: the credentials are not set
FetchRaise ==
    /\ fetchPc = "init"
    /\ ~env.credentials
    /\ fetchPc' = "raised"
    /\ UNCHANGED <<env, wq, issued, logs, acceptVars, pureVars, enrichVars, restVars>>

\* WORKER_NAMES.map(...): every worker's call runs to its first await, which sends
\* the trace-filter query
FetchStart ==
    /\ fetchPc = "init"
    /\ env.credentials
    /\ wq' = [ w \in Workers |->
                 QueryState("trace", {"traceId"}, NoEvents, NoEvents, NoEvents, NoEvents) ]
    /\ issued' = { <<w, "traceId">> : w \in Workers }
    /\ fetchPc' = "waiting"
    /\ UNCHANGED <<env, logs, acceptVars, pureVars, enrichVars, restVars>>

\* the trace-filter query of worker w settles; on success the needle queries are sent
TraceRespond(w) ==
    /\ w \in DOMAIN wq
    /\ wq[w].pc = "trace"
    /\ \E resp \in Responses(w, "traceId") :
           IF ~resp.ok
           THEN /\ wq' = [ wq EXCEPT ![w] =
                             QueryState("rejected", {}, NoEvents, NoEvents, NoEvents, NoEvents) ]
                /\ UNCHANGED issued
           ELSE /\ wq' = [ wq EXCEPT ![w] =
                             QueryState("needles", Range(TraceNeedles), resp.events,
                                        NoEvents, NoEvents, NoEvents) ]
                /\ issued' = issued \cup { <<w, k>> : k \in Range(TraceNeedles) }
    /\ UNCHANGED <<env, fetchPc, logs, acceptVars, pureVars, enrichVars, restVars>>

\* a needle query of worker w settles.  Promise.all rejects on the first failure and
\* drops what the other query answers later; when both batches are in, the strict
\* events are computed and the call returns them or sends the run needle query.
NeedleRespond(w, k) ==
    /\ w \in DOMAIN wq
    /\ k \in Range(TraceNeedles)
    /\ k \in wq[w].pending
    /\ \E resp \in Responses(w, k) :
       LET rest == wq[w].pending \ {k}
           json == IF k = "needle_json" THEN resp.events ELSE wq[w].jsonBatch
           eq   == IF k = "needle_eq" THEN resp.events ELSE wq[w].eqBatch
           strict == StrictEvents(wq[w].strictTraceEvents, json, eq, FetchRunId, FetchTraceId)
       IN  IF wq[w].pc = "rejected"
           THEN /\ wq' = [ wq EXCEPT ![w].pending = rest ]
                /\ UNCHANGED issued
           ELSE IF ~resp.ok
           THEN /\ wq' = [ wq EXCEPT ![w] =
                             QueryState("rejected", rest, NoEvents, NoEvents, NoEvents, NoEvents) ]
                /\ UNCHANGED issued
           ELSE IF rest # {}
           THEN /\ wq' = [ wq EXCEPT ![w] =
                             QueryState("needles", rest, wq[w].strictTraceEvents, json, eq,
                                        NoEvents) ]
                /\ UNCHANGED issued
           ELSE IF ~AllowRunFallback(env) \/ w # "fantasy-mcp"
           THEN /\ wq' = [ wq EXCEPT ![w] =
                             QueryState("fulfilled", {}, wq[w].strictTraceEvents, json, eq,
                                        strict) ]
                /\ UNCHANGED issued
           ELSE /\ wq' = [ wq EXCEPT ![w] =
                             QueryState("fallback", {"eval"}, wq[w].strictTraceEvents, json, eq,
                                        strict) ]
                /\ issued' = issued \cup { <<w, "eval">> }
    /\ UNCHANGED <<env, fetchPc, logs, acceptVars, pureVars, enrichVars, restVars>>

\* the run needle query of worker w settles
FallbackRespond(w) ==
    /\ w \in DOMAIN wq
    /\ wq[w].pc = "fallback"
    /\ \E resp \in Responses(w, "eval") :
           IF ~resp.ok
           THEN wq' = [ wq EXCEPT ![w] =
                          QueryState("rejected", {}, NoEvents, NoEvents, NoEvents, NoEvents) ]
           ELSE wq' = [ wq EXCEPT ![w].pc = "fulfilled", ![w].pending = {},
                                  ![w].events =
                                     DedupeEvents(wq[w].events \o
                                       FallbackEvents(resp.events, FetchRunId, FetchTraceId)) ]
    /\ UNCHANGED <<env, fetchPc, issued, logs, acceptVars, pureVars, enrichVars, restVars>>

\* Promise.allSettled resolves: every worker's call is settled
FetchJoin ==
    /\ fetchPc = "waiting"
    /\ \A w \in DOMAIN wq : wq[w].pc \in {"fulfilled", "rejected"}
    /\ logs' = JoinSettled(wq)
    /\ fetchPc' = "returned"
    /\ UNCHANGED <<env, wq, issued, acceptVars, pureVars, enrichVars, restVars>>

FetchNext ==
    \/ FetchRaise
    \/ FetchStart
    \/ \E w \in Workers : TraceRespond(w)
    \/ \E w \in Workers, k \in Range(TraceNeedles) : NeedleRespond(w, k)
    \/ \E w \in Workers : FallbackRespond(w)
    \/ FetchJoin

SpecFetch == FetchInit /\ [][FetchNext]_vars

-----------------------------------------------------------------------------
(* logs-merge.ts: mergeServerLogs applied to the mappings the program holds *)

\* a second report of GoodEvent: another provider id, the same fields otherwise, apart
\* from the wall time
GoodEventAgain == [ GoodEvent EXCEPT !.id = "ev-1b", !.wallTimeMs = 7 ]

\* the log events of the mappings: two events that agree on every field of the key
\* and differ outside it, and a third event
MergeEvents ==
    { ToLogEvent(GoodEvent, FetchNow), ToLogEvent(GoodEventAgain, FetchNow),
      ToLogEvent(NoRunEvent, FetchNow) }

\* a worker's list as fetchWorkerLogs returns it and the artifact stores it: not empty
EventLists(n) == SeqsUpTo(MergeEvents, n) \ { << >> }

\* the mappings: "fantasy-mcp" absent or with a list of up to n events, "auth-worker"
\* absent or with one event
ServerLogsUpTo(n) ==
    { [ w \in ws |-> IF w = "fantasy-mcp" THEN l ELSE << ToLogEvent(NoRunEvent, FetchNow) >> ] :
        ws \in SUBSET {"fantasy-mcp", "auth-worker"}, l \in EventLists(n) }

MergeInit ==
    /\ RestIdle
    /\ AcceptIdle
    /\ IsoIdle
    /\ FetchIdle
    /\ InferIdle
    /\ EnrichIdle
    /\ mergeIn \in [ a : ServerLogsUpTo(MaxMergeLen), b : ServerLogsUpTo(MaxMergeLen),
                      c : ServerLogsUpTo(1) ]
    /\ mergeOut = NoMerges

\* the merges the properties compare
MergeApply ==
    /\ ~mergeOut.done
    /\ mergeOut' = [ done |-> TRUE,
                     aa   |-> MergeServerLogs(mergeIn.a, mergeIn.a),
                     ab   |-> MergeServerLogs(mergeIn.a, mergeIn.b),
                     ab_c |-> MergeServerLogs(MergeServerLogs(mergeIn.a, mergeIn.b), mergeIn.c),
                     a_bc |-> MergeServerLogs(mergeIn.a, MergeServerLogs(mergeIn.b, mergeIn.c)) ]
    /\ UNCHANGED <<mergeIn, acceptVars, isoVars, fetchVars, inferVars, enrichVars, restVars>>

MergeNext == MergeApply

SpecMerge == MergeInit /\ [][MergeNext]_vars

-----------------------------------------------------------------------------
(* coverage.ts: inferExpectedWorkers applied to a tool-call list *)

\* a platform value that is not a string (a number, an object)
Malformed == "<not a string>"

\* the tool calls of the lists: ToolCalls, and calls whose platform is one no worker
\* serves or is not a string (a call without args reads as platform NoValue)
InferCalls ==
    ToolCalls \cup [ tool_name : {"get_roster"}, platform : {"cbs", Malformed} ]

InferInit ==
    /\ RestIdle
    /\ AcceptIdle
    /\ IsoIdle
    /\ FetchIdle
    /\ MergeIdle
    /\ EnrichIdle
    /\ inferIn \in SeqsUpTo(InferCalls, MaxInferCalls)
    /\ inferOut = [ done |-> FALSE, workers |-> << >> ]

InferApply ==
    /\ ~inferOut.done
    /\ inferOut' = [ done |-> TRUE, workers |-> InferExpectedWorkers(inferIn) ]
    /\ UNCHANGED <<inferIn, acceptVars, isoVars, fetchVars, mergeVars, enrichVars, restVars>>

InferNext == InferApply

SpecInfer == InferInit /\ [][InferNext]_vars

-----------------------------------------------------------------------------
(* enrich.ts: the re-enrichment command *)

DEFAULT_REENRICH_ATTEMPTS == 6
\* runner.ts
LOG_ENRICHMENT_ATTEMPTS == 15

\* an environment variable: unset, or set to the number halves / 2
Setting(halves) == [ set |-> TRUE, halves |-> halves ]

\* Number(value) finite and > 0: Math.floor of it, else the fallback
ParsePositiveInt(value, fallback) ==
    IF value.set /\ value.halves > 0 THEN value.halves \div 2 ELSE fallback

GetReenrichAttempts(e) == ParsePositiveInt(e.attempts, DEFAULT_REENRICH_ATTEMPTS)

\* new Date().toISOString() at clock tick n
ClockStamps == << "now-1", "now-2", "now-3", "now-4" >>
Stamp(n) == ClockStamps[n]

\* the two traces of the run
EnrichTraceIds == << TraceIdPool[1], TraceIdPool[2] >>

\* the EnrichmentMetadata of an artifact (present = FALSE: the artifact has none)
Enrichment(mode, attempts, expectedWorkers, actualWorkers, missingWorkers) ==
    [ present |-> TRUE, mode |-> mode, attempts |-> attempts,
      expected_workers |-> expectedWorkers, actual_workers |-> actualWorkers,
      missing_workers |-> missingWorkers ]

NoReenrichment ==
    [ present |-> FALSE, mode |-> NoValue, attempts |-> 0, expected_workers |-> << >>,
      actual_workers |-> << >>, missing_workers |-> << >> ]

\* trace.json of a trace: valid says that timestamp_utc parses as a date
TraceFile(valid, toolCalls, serverLogs, notes, enrichment) ==
    [ present |-> TRUE, valid |-> valid, tool_calls |-> toolCalls,
      server_logs |-> serverLogs, notes |-> notes, enrichment |-> enrichment ]

NoTraceFile ==
    [ present |-> FALSE, valid |-> FALSE, tool_calls |-> << >>, server_logs |-> NoLogs,
      notes |-> << >>, enrichment |-> NoReenrichment ]

\* the notes enrichTrace pushes
LogsNote(workerCount, attemptsUsed) ==
    [ kind |-> IF workerCount > 0 THEN "Re-enriched worker logs"
               ELSE "Re-enrichment found no worker logs",
      workers |-> workerCount, attempts |-> attemptsUsed,
      expected |-> << >>, actual |-> << >>, missing |-> << >> ]

CoverageNote(expectedWorkers, actualWorkers, missingWorkers) ==
    [ kind |-> "Coverage", workers |-> 0, attempts |-> 0,
      expected |-> expectedWorkers, actual |-> actualWorkers, missing |-> missingWorkers ]

\* a raw event of trace t that passes the client's filters
TraceEvent(t, id, timestamp) ==
    RawEvent(id, timestamp, "req-1", t, t, RUN_ID, << Text("/mcp") >>, NoMessage)

\* the ingress event of trace t, and a second report of it under another provider id
IngressEvent(t) == TraceEvent(t, "ev-1", "ts-1")
IngressEventAgain(t) == [ TraceEvent(t, "ev-1b", "ts-1") EXCEPT !.wallTimeMs = 7 ]
\* an event of the auth worker that carries no timestamp
AuthEvent(t) == TraceEvent(t, "ev-3", NoValue)

\* what queryWorkerLogsForTrace may resolve to for worker w and trace t during
\* re-enrichment: nothing or the worker's events (nothing for the platform workers)
AdmittedEvents(w, t) ==
    IF w = "fantasy-mcp" THEN { NoEvents, << IngressEvent(t), IngressEventAgain(t) >> }
    ELSE IF w = "auth-worker" THEN { NoEvents, << AuthEvent(t) >> }
    ELSE { NoEvents }

\* what the calls of one fetchWorkerLogs call may resolve to, per worker
Resolutions(t) ==
    { [ w \in Workers |-> IF w = "fantasy-mcp" THEN f
                          ELSE IF w = "auth-worker" THEN a ELSE NoEvents ] :
        f \in AdmittedEvents("fantasy-mcp", t), a \in AdmittedEvents("auth-worker", t) }

\* the sets of workers whose queries fail in one fetchWorkerLogs call
FailedSets == SUBSET {"fantasy-mcp", "auth-worker"} \cup { Workers }

\* a variant that takes the events of a rejected call too
FetchedLogsOfAll(failed, resolved, now) ==
    [ w \in { v \in Workers : Len(resolved[v]) > 0 } |-> ToLogEvents(resolved[w], now) ]

\* the result of one fetchWorkerLogs call: the workers whose call was fulfilled with
\* events, each with its events mapped by toLogEvent
FetchedLogs(failed, resolved, now) ==
    [ w \in { v \in Workers \ failed : Len(resolved[v]) > 0 } |->
        ToLogEvents(resolved[w], now) ]

\* the ServerLogs an artifact of trace t holds before the first re-enrichment: what
\* the initial enrichment of runner.ts stored from one fetchWorkerLogs call (nothing,
\* the ingress event, or the ingress event in both its reports)
InitialLogs(t) ==
    { FetchedLogs({}, [ w \in Workers |-> IF w = "fantasy-mcp" THEN f ELSE NoEvents ],
                  Stamp(1)) :
        f \in { NoEvents, << IngressEvent(t) >>, << IngressEvent(t), IngressEventAgain(t) >> } }

\* runner.ts: the note runScenario pushes when its loop ends without logs and no
\* fetchWorkerLogs call raised
NoLogsNote(enrichmentAttempts) ==
    [ kind |-> "Server log enrichment returned no events",
      workers |-> 0, attempts |-> enrichmentAttempts,
      expected |-> << >>, actual |-> << >>, missing |-> << >> ]

\* the artifact runScenario builds from the response: notes [], no server_logs
ScenarioArtifact(toolCalls) == TraceFile(TRUE, toolCalls, NoLogs, << >>, NoReenrichment)

\* a variant that records the ceiling as the number of attempts
InitialEnrichedAtCeiling(artifact, enrichmentAttempts) ==
    LET expectedWorkers == InferExpectedWorkers(artifact.tool_calls)
        actualWorkers == GetActualWorkers(artifact.server_logs)
        missingWorkers == GetMissingWorkers(expectedWorkers, actualWorkers)
    IN  [ artifact EXCEPT
            !.notes = @ \o (IF Cardinality(DOMAIN artifact.server_logs) = 0
                            THEN << NoLogsNote(enrichmentAttempts) >> ELSE << >>)
                        \o << CoverageNote(expectedWorkers, actualWorkers, missingWorkers) >>,
            !.enrichment = Enrichment("initial", LOG_ENRICHMENT_ATTEMPTS, expectedWorkers,
                                      actualWorkers, missingWorkers) ]

\* runScenario after the loop of its initial enrichment: the note of a loop that found
\* nothing, the enrichment record and the coverage note
InitialEnriched(artifact, enrichmentAttempts) ==
    LET expectedWorkers == InferExpectedWorkers(artifact.tool_calls)
        actualWorkers == GetActualWorkers(artifact.server_logs)
        missingWorkers == GetMissingWorkers(expectedWorkers, actualWorkers)
    IN  [ artifact EXCEPT
            !.notes = @ \o (IF Cardinality(DOMAIN artifact.server_logs) = 0
                            THEN << NoLogsNote(enrichmentAttempts) >> ELSE << >>)
                        \o << CoverageNote(expectedWorkers, actualWorkers, missingWorkers) >>,
            !.enrichment = Enrichment("initial", enrichmentAttempts, expectedWorkers,
                                      actualWorkers, missingWorkers) ]

\* the attempts of the initial enrichment of the first trace at which the telemetry
\* service may have ingested its events: after the first retry delay
FoundAtAttempts == { 2 }

\* what a fetchWorkerLogs call of the initial enrichment of trace t may return at an
\* attempt: an empty mapping, or one with events.  The call does not raise: queries
\* that fail are settled inside it, and getConfig finds the credentials that
\* isCloudflareConfigured() found
RunnerOutcomes(t, attemptNo) ==
    { m \in InitialLogs(t) : Cardinality(DOMAIN m) = 0 \/ attemptNo \in FoundAtAttempts }

\* the first trace when the command starts on a run whose first scenario is not under
\* way: no trace.json (the scenario raised), or one with an invalid timestamp_utc
FirstTraceFiles ==
    { NoTraceFile, TraceFile(FALSE, << SessionCall >>, NoLogs, << >>, NoReenrichment) }

\* the second trace: no trace.json, or the artifact of a scenario without tool calls
\* whose initial enrichment found the ingress log at its first attempt
SecondTraceFiles ==
    { NoTraceFile,
      InitialEnriched(
          [ ScenarioArtifact(<< >>) EXCEPT
              !.server_logs = [ w \in {"fantasy-mcp"} |->
                                  ToLogEvents(<< IngressEvent(EnrichTraceIds[2]) >>, Stamp(1)) ] ],
          1) }

EnrichDisks ==
    { [ t \in Range(EnrichTraceIds) |-> IF t = EnrichTraceIds[1] THEN f1 ELSE f2 ] :
        f1 \in FirstTraceFiles, f2 \in SecondTraceFiles }

\* process.argv and process.env as runCli reads them, the run directory, and the trace
\* ids resolveTraceIds gives
EnrichEnvs ==
    [ runId : BOOLEAN, credentials : BOOLEAN, runDir : BOOLEAN,
      attempts : { Unset, Setting(1), Setting(4) },
      traceIds : { << >>, << EnrichTraceIds[1] >>, EnrichTraceIds } ]

NoTally == [ completed |-> 0, failed |-> 0 ]

EnrichInit ==
    /\ RestIdle
    /\ AcceptIdle
    /\ IsoIdle
    /\ FetchIdle
    /\ MergeIdle
    /\ InferIdle
    /\ enPc \in {"scenario", "start"}
    /\ enEnv \in EnrichEnvs
    /\ disk \in EnrichDisks
    /\ enPc = "scenario" => ~disk[EnrichTraceIds[1]].present
    /\ queue = << >>
    /\ attempt = 0
    /\ selectedLogs = NoLogs
    /\ lastFetch = NoFetch
    /\ fetchCount = 0
    /\ clock = 1
    /\ tally = NoTally
    /\ enExit = NoValue
    /\ pass = 1
    /\ before = disk

otherVars == <<acceptVars, isoVars, fetchVars, mergeVars, inferVars, restVars>>
idleVars == <<acceptVars, isoVars, fetchVars, mergeVars, inferVars, traceIdVars, loopVars,
              writeVars, runVars>>

\* runScenario (runner.ts) of the first scenario up to its initial enrichment: the
\* response has a get_user_session call; isCloudflareConfigured() decides whether the
\* enrichment loop runs.  The run and the re-enrichment command read the same two
\* variables of the same environment
RunnerRespond ==
    /\ enPc = "scenario"
    /\ rnArtifact' = ScenarioArtifact(<< SessionCall >>)
    /\ attempt' = 0
    /\ fetchCount' = 0
    /\ enPc' = IF enEnv.credentials THEN "initial" ELSE "built"
    /\ UNCHANGED <<enEnv, disk, queue, selectedLogs, lastFetch, clock, tally, enExit, pass,
                   before, idleVars>>

\* one iteration of the loop of the initial enrichment, and what follows the loop when
\* this iteration ends it (logs found, or LOG_ENRICHMENT_ATTEMPTS reached)
RunnerFetch ==
    /\ enPc = "initial"
    /\ \E serverLogs \in RunnerOutcomes(EnrichTraceIds[1], attempt + 1) :
         LET found == Cardinality(DOMAIN serverLogs) > 0
             fetched == IF found THEN [ rnArtifact EXCEPT !.server_logs = serverLogs ]
                        ELSE rnArtifact
         IN  /\ attempt' = attempt + 1
             /\ fetchCount' = fetchCount + 1
             /\ IF found \/ attempt + 1 >= LOG_ENRICHMENT_ATTEMPTS
                THEN /\ rnArtifact' = InitialEnriched(fetched, attempt + 1)
                     /\ enPc' = "built"
                ELSE /\ rnArtifact' = fetched
                     /\ enPc' = "initial"
    /\ UNCHANGED <<enEnv, disk, queue, selectedLogs, lastFetch, clock, tally, enExit, pass,
                   before, idleVars>>

\* run.ts: writeTraceArtifact of the artifact runScenario returned; the re-enrichment
\* command is started on the run afterwards
RunnerWrite ==
    /\ enPc = "built"
    /\ disk' = [ disk EXCEPT ![EnrichTraceIds[1]] = rnArtifact ]
    /\ before' = disk'
    /\ rnArtifact' = [ present |-> FALSE ]
    /\ attempt' = 0
    /\ fetchCount' = 0
    /\ enPc' = "start"
    /\ UNCHANGED <<enEnv, queue, selectedLogs, lastFetch, clock, tally, enExit, pass,
                   idleVars>>

\* fail(): no run id argument, no credentials, no run directory, or no traces found
EnrichFail ==
    /\ enPc = "start"
    /\ \/ ~enEnv.runId
       \/ ~enEnv.credentials
       \/ ~enEnv.runDir
       \/ Len(enEnv.traceIds) = 0
    /\ enPc' = "exited"
    /\ enExit' = "1"
    /\ UNCHANGED <<enEnv, disk, queue, attempt, selectedLogs, lastFetch, fetchCount, clock,
                   tally, pass, before, otherVars>>

EnrichStart ==
    /\ enPc = "start"
    /\ enEnv.runId /\ enEnv.credentials /\ enEnv.runDir
    /\ Len(enEnv.traceIds) > 0
    /\ queue' = enEnv.traceIds
    /\ tally' = NoTally
    /\ enPc' = "loop"
    /\ UNCHANGED <<enEnv, disk, attempt, selectedLogs, lastFetch, fetchCount, clock, enExit,
                   pass, before, otherVars>>

\* enrichTrace raises before its loop: readTraceArtifact finds no trace.json, or
\* buildReenrichWindow finds timestamp_utc invalid; runCli counts the trace as failed
EnrichTraceRaise ==
    /\ enPc = "loop"
    /\ Len(queue) > 0
    /\ ~disk[Head(queue)].present \/ ~disk[Head(queue)].valid
    /\ tally' = [ tally EXCEPT !.failed = @ + 1 ]
    /\ queue' = Tail(queue)
    /\ UNCHANGED <<enPc, enEnv, disk, attempt, selectedLogs, lastFetch, fetchCount, clock,
                   enExit, pass, before, otherVars>>

\* enrichTrace up to its loop
EnrichTraceBegin ==
    /\ enPc = "loop"
    /\ Len(queue) > 0
    /\ disk[Head(queue)].present /\ disk[Head(queue)].valid
    /\ attempt' = 0
    /\ fetchCount' = 0
    /\ lastFetch' = NoFetch
    /\ selectedLogs' = disk[Head(queue)].server_logs
    /\ enPc' = IF 1 <= GetReenrichAttempts(enEnv) THEN "attempt" ELSE "settled"
    /\ UNCHANGED <<enEnv, disk, queue, clock, tally, enExit, pass, before, otherVars>>

\* a variant of the loop that stores the merged logs after every attempt
DiskWithAttemptStored(d, t, merged) == [ d EXCEPT ![t].server_logs = merged ]

\* what an iteration of the loop leaves on disk: the loop body holds no write, the
\* merged logs stay in the local selectedLogs
DiskAfterAttempt(d, t, merged) == d

\* one iteration of the loop: fetch, merge, and break when no worker is missing
EnrichAttempt ==
    /\ enPc = "attempt"
    /\ \E failed \in FailedSets, resolved \in Resolutions(Head(queue)),
          now \in { clock, clock + 1 } :
         LET artifact == disk[Head(queue)]
             expectedWorkers == InferExpectedWorkers(artifact.tool_calls)
             fetched == FetchedLogs(failed, resolved, Stamp(now))
             merged == MergeServerLogs(selectedLogs, fetched)
             missing == GetMissingWorkers(expectedWorkers, GetActualWorkers(merged))
         IN  /\ now <= MaxClock
             /\ clock' = now
             /\ attempt' = attempt + 1
             /\ fetchCount' = fetchCount + 1
             /\ lastFetch' = [ fetched |-> TRUE, failed |-> failed,
                               known |-> lastFetch.known
                                         /\ AllStored(fetched, artifact.server_logs) ]
             /\ selectedLogs' = merged
             /\ disk' = DiskAfterAttempt(disk, Head(queue), merged)
             /\ enPc' = IF Len(missing) = 0 \/ attempt + 1 >= GetReenrichAttempts(enEnv)
                        THEN "settled" ELSE "attempt"
    /\ UNCHANGED <<enEnv, queue, tally, enExit, pass, before, otherVars>>

\* the artifact enrichTrace writes after its loop
PersistedFile(artifact, merged, attemptsUsed) ==
    LET expectedWorkers == InferExpectedWorkers(artifact.tool_calls)
        actualWorkers == GetActualWorkers(merged)
        missingWorkers == GetMissingWorkers(expectedWorkers, actualWorkers)
    IN  [ artifact EXCEPT
            !.server_logs = IF Cardinality(DOMAIN merged) > 0 THEN merged ELSE @,
            !.notes = @ \o << LogsNote(Cardinality(DOMAIN merged), attemptsUsed),
                              CoverageNote(expectedWorkers, actualWorkers, missingWorkers) >>,
            !.enrichment = Enrichment("reenrich", attemptsUsed, expectedWorkers,
                                      actualWorkers, missingWorkers) ]

\* enrichTrace after its loop, and runCli counting the trace as completed
EnrichPersist ==
    /\ enPc = "settled"
    /\ disk' = [ disk EXCEPT ![Head(queue)] = PersistedFile(@, selectedLogs, attempt) ]
    /\ tally' = [ tally EXCEPT !.completed = @ + 1 ]
    /\ queue' = Tail(queue)
    /\ enPc' = "loop"
    /\ attempt' = 0
    /\ fetchCount' = 0
    /\ selectedLogs' = NoLogs
    /\ lastFetch' = NoFetch
    /\ UNCHANGED <<enEnv, clock, enExit, pass, before, otherVars>>

\* a variant that ends with status 0 whatever happened
ExitStatusZero(failed) == "0"

\* if (failed > 0) process.exit(1), else the process ends with status 0
ExitStatus(failed) == IF failed > 0 THEN "1" ELSE "0"

\* the end of runCli
EnrichExit ==
    /\ enPc = "loop"
    /\ Len(queue) = 0
    /\ enExit' = ExitStatus(tally.failed)
    /\ enPc' = "exited"
    /\ UNCHANGED <<enEnv, disk, queue, attempt, selectedLogs, lastFetch, fetchCount, clock,
                   tally, pass, before, otherVars>>

\* the command is run again on the same run
EnrichRerun ==
    /\ enPc = "exited"
    /\ pass < MaxPasses
    /\ pass' = pass + 1
    /\ before' = disk
    /\ enPc' = "start"
    /\ enExit' = NoValue
    /\ queue' = << >>
    /\ attempt' = 0
    /\ fetchCount' = 0
    /\ selectedLogs' = NoLogs
    /\ lastFetch' = NoFetch
    /\ tally' = NoTally
    /\ UNCHANGED <<enEnv, disk, clock, otherVars>>

EnrichNext ==
    \/ RunnerRespond
    \/ RunnerFetch
    \/ RunnerWrite
    \/ EnrichFail
    \/ EnrichStart
    \/ EnrichTraceRaise
    \/ EnrichTraceBegin
    \/ EnrichAttempt
    \/ EnrichPersist
    \/ EnrichExit
    \/ EnrichRerun

SpecEnrich == EnrichInit /\ [][EnrichNext]_vars

\* the specifications above are not running
OldIdle == AcceptIdle /\ IsoIdle /\ FetchIdle /\ MergeIdle /\ InferIdle /\ EnrichIdle

-----------------------------------------------------------------------------
(* trace.ts: createTraceId.  A string is the sequence of its characters. *)

Uppers == <<"A", "B", "C", "D", "E", "F", "G", "H", "I", "J", "K", "L", "M", "N", "O", "P", "Q", "R", "S", "T", "U", "V", "W", "X", "Y", "Z">>
Lowers == <<"a", "b", "c", "d", "e", "f", "g", "h", "i", "j", "k", "l", "m", "n", "o", "p", "q", "r", "s", "t", "u", "v", "w", "x", "y", "z">>
Numerals == <<"0", "1", "2", "3", "4", "5", "6", "7", "8", "9">>

Min(a, b) == IF a < b THEN a ELSE b
Max(a, b) == IF a > b THEN a ELSE b

\* String.prototype.toLowerCase, one character
ToLowerCase(c) ==
    IF c \in Range(Uppers) THEN Lowers[CHOOSE i \in 1..Len(Uppers) : Uppers[i] = c] ELSE c

\* [a-z0-9]
IsSlugChar(c) == c \in Range(Lowers) \cup Range(Numerals)

\* .replace(/[^a-z0-9]+/g, "_"): every maximal run of other characters becomes one "_"
RECURSIVE ReplaceRuns(_, _)
ReplaceRuns(s, inRun) ==
    IF s = << >> THEN << >>
    ELSE IF IsSlugChar(Head(s)) THEN <<Head(s)>> \o ReplaceRuns(Tail(s), FALSE)
    ELSE IF inRun THEN ReplaceRuns(Tail(s), TRUE)
    ELSE <<"_">> \o ReplaceRuns(Tail(s), TRUE)

\* .replace(/^_+/, "")
RECURSIVE StripLeading(_)
StripLeading(s) ==
    IF s # << >> /\ Head(s) = "_" THEN StripLeading(Tail(s)) ELSE s

\* .replace(/_+$/, "")
RECURSIVE StripTrailing(_)
StripTrailing(s) ==
    IF s # << >> /\ s[Len(s)] = "_" THEN StripTrailing(SubSeq(s, 1, Len(s) - 1)) ELSE s

SLUG_LEN == 48
RUN_SCOPE_LEN == 16
TRACE_PREFIX == <<"t", "r", "a", "c", "e">>

\* slugify
Slugify(value) ==
    LET lowered == [ i \in 1..Len(value) |-> ToLowerCase(value[i]) ]
        trimmed == StripTrailing(StripLeading(ReplaceRuns(lowered, FALSE)))
    IN  SubSeq(trimmed, 1, Min(SLUG_LEN, Len(trimmed)))

\* scopeRunId: the last RUN_SCOPE_LEN characters of the slug of the run id
ScopeRunId(runId) ==
    LET scoped == Slugify(runId)
        tail == StripLeading(SubSeq(scoped, Max(1, Len(scoped) - RUN_SCOPE_LEN + 1), Len(scoped)))
    IN  IF scoped = << >> THEN <<"r", "u", "n">>
        ELSE IF tail = << >> THEN <<"r", "u", "n">> ELSE tail

\* String(index)
RECURSIVE DecimalOf(_)
DecimalOf(n) ==
    IF n < 10 THEN <<Numerals[n + 1]>> ELSE DecimalOf(n \div 10) \o <<Numerals[(n % 10) + 1]>>

\* String.prototype.padStart
RECURSIVE PadStart(_, _, _)
PadStart(s, n, c) == IF Len(s) >= n THEN s ELSE PadStart(<<c>> \o s, n, c)

\* createTraceId
CreateTraceId(scenarioId, index, runId) ==
    LET slug == Slugify(scenarioId)
        safeScenario == IF slug = << >> THEN <<"s", "c", "e", "n", "a", "r", "i", "o">> ELSE slug
        safeIndex == PadStart(DecimalOf(index), 3, "0")
    IN  TRACE_PREFIX \o <<"_">> \o safeScenario \o <<"_">> \o safeIndex \o <<"_">> \o ScopeRunId(runId)

\* run.ts main: new Date().toISOString().replace(/[:.]/g, "-").slice(0, 19) + "Z", here
\* 7 February 02:mm:12 of the year yyyy
RunIdAt(yyyy, mm) ==
    yyyy \o <<"-", "0", "2", "-", "0", "7", "T", "0", "2", "-">> \o mm \o <<"-", "1", "2", "Z">>

Years == { <<"2", "0", "2", "6">>, <<"2", "0", "2", "7">>, <<"2", "1", "2", "6">> }
Minutes == { <<"1", "1">>, <<"2", "0">> }

\* run ids in the format of the harness
HarnessRunIds == { RunIdAt(y, m) : y \in Years, m \in Minutes }

\* a scenario id of more than SLUG_LEN characters
LongScenarioId == [ i \in 1..(SLUG_LEN + 2) |-> IF i % 5 = 0 THEN "_" ELSE "a" ]

ScenarioIds == { << >>, <<"W", "h", "o", " ", "i", "s", "?", "!">>, <<"b", "e", "s", "t", "_", "a", "d", "d", "s">>, LongScenarioId }

NoTraceIds == [ done |-> FALSE, first |-> << >>, again |-> << >>, second |-> << >> ]

TraceIdInit ==
    /\ OldIdle
    /\ LoopIdle
    /\ LateIdle
    /\ traceIdIn \in [ scenarioId : ScenarioIds, index : 0..MaxIndex,
                       runId : HarnessRunIds, otherRunId : HarnessRunIds ]
    /\ traceIdOut = NoTraceIds

\* the harness of the first run makes the trace id twice, the harness of the other run once
TraceIdApply ==
    /\ ~traceIdOut.done
    /\ traceIdOut' =
         [ done |-> TRUE,
           first |-> CreateTraceId(traceIdIn.scenarioId, traceIdIn.index, traceIdIn.runId),
           again |-> CreateTraceId(traceIdIn.scenarioId, traceIdIn.index, traceIdIn.runId),
           second |-> CreateTraceId(traceIdIn.scenarioId, traceIdIn.index, traceIdIn.otherRunId) ]
    /\ UNCHANGED <<traceIdIn, oldVars, loopVars, lateVars>>

TraceIdNext == TraceIdApply

SpecTraceId == TraceIdInit /\ [][TraceIdNext]_vars

-----------------------------------------------------------------------------
(* enrich.ts: enrichTrace with the queries of fetchWorkerLogs in flight.  The run  *)
(* fallback is off (FLAIM_EVAL_ALLOW_RUN_FALLBACK unset).  Times are milliseconds. *)

REENRICH_LOOKBACK_MS == 120000
REENRICH_LOOKAHEAD_MS == 300000
DEFAULT_REENRICH_DELAY_MS == 15000
DEFAULT_WINDOW_EXPAND_MS == 30000
TIME_PADDING_MS == 30000

GetReenrichDelayMs(e) == ParsePositiveInt(e.delay, DEFAULT_REENRICH_DELAY_MS)

GetWindowExpandMs(e) == ParsePositiveInt(e.expand, DEFAULT_WINDOW_EXPAND_MS)

\* buildReenrichWindow, for a valid timestamp
BuildReenrichWindow(artifact) ==
    [ start |-> artifact.timestamp - Max(artifact.duration, 0) - REENRICH_LOOKBACK_MS,
      end |-> artifact.timestamp + REENRICH_LOOKAHEAD_MS ]

\* a variant that moves only the end of the window
BuildAttemptWindowForward(baseWindow, attemptNo, expandMs) ==
    [ start |-> baseWindow.start,
      end |-> baseWindow.end + Max(0, attemptNo - 1) * Max(0, expandMs) ]

\* buildAttemptWindow
BuildAttemptWindow(baseWindow, attemptNo, expandMs) ==
    LET expandBy == Max(0, attemptNo - 1) * Max(0, expandMs)
    IN  [ start |-> baseWindow.start - expandBy, end |-> baseWindow.end + expandBy ]

\* queryWorkerLogs: the request sent for worker w with the filter kind, as a query of
\* attempt attemptNo of the loop
TelemetryQuery(attemptNo, w, kind, startTime, endTime) ==
    [ attempt |-> attemptNo, worker |-> w, kind |-> kind,
      from |-> startTime - TIME_PADDING_MS, to |-> endTime + TIME_PADDING_MS ]

\* the window enrichTrace passes to fetchWorkerLogs on attempt attemptNo
AttemptWindow(attemptNo) ==
    BuildAttemptWindow(BuildReenrichWindow(loopTrace), attemptNo, GetWindowExpandMs(loopEnv))

\* fetchWorkerLogs: every worker's call runs to its first await, the trace-filter query
TraceQueries(attemptNo) ==
    { TelemetryQuery(attemptNo, w, "traceId", AttemptWindow(attemptNo).start,
                     AttemptWindow(attemptNo).end) : w \in Workers }

\* the needle queries of worker w, sent with the window of its call
NeedleQueries(attemptNo, w) ==
    { TelemetryQuery(attemptNo, w, k, AttemptWindow(attemptNo).start,
                     AttemptWindow(attemptNo).end) : k \in Range(TraceNeedles) }

\* the trace called get_user_session: the ingress and the auth worker are expected
LoopExpectedWorkers == InferExpectedWorkers(<<SessionCall>>)

\* the workers whose queries the backend may fail; the backend holds events of the
\* expected workers only
UnreliableWorkers == {"auth-worker"}

\* acceptable query outcomes of worker w
QueryOutcomes(w) == IF w \in UnreliableWorkers THEN BOOLEAN ELSE {TRUE}

\* what a fulfilled call of worker w may return: events or none
CallResults(w) ==
    IF Includes(LoopExpectedWorkers, w) THEN {"fulfilled", "empty"} ELSE {"empty"}

\* the settings and the trace of a pass: the defaults, settings that floor to 0 with a
\* negative duration, and an expansion step of 10000.5 ms
LoopInputs ==
    { [ delay |-> Unset, expand |-> Unset, duration |-> 2500 ],
      [ delay |-> Setting(1), expand |-> Setting(1), duration |-> -5 ],
      [ delay |-> Unset, expand |-> Setting(20001), duration |-> 0 ] }

LoopAttemptSettings == {Setting(1), Setting(2), Setting(4)}

LoopInit ==
    /\ OldIdle
    /\ TraceIdIdle
    /\ LateIdle
    /\ loopPc = "start"
    /\ \E in \in LoopInputs, n \in LoopAttemptSettings :
           /\ loopEnv = [ attempts |-> n, delay |-> in.delay, expand |-> in.expand ]
           /\ loopTrace = [ timestamp |-> 1000000000, duration |-> in.duration ]
    /\ loopAttempt = 0
    /\ loopCalls = [ w \in Workers |-> "none" ]
    /\ inFlight = {}
    /\ loopCovered \in {{}, {"fantasy-mcp"}}
    /\ sleepLeft = 0

\* the artifact is read; the loop is entered and attempt 1 sends its queries, unless
\* the ceiling is 0
LoopStart ==
    /\ loopPc = "start"
    /\ IF GetReenrichAttempts(loopEnv) >= 1
       THEN /\ loopAttempt' = 1
            /\ loopCalls' = [ w \in Workers |-> "trace" ]
            /\ inFlight' = TraceQueries(1)
            /\ loopPc' = "fetching"
       ELSE /\ loopPc' = "settled"
            /\ UNCHANGED <<loopAttempt, loopCalls, inFlight>>
    /\ UNCHANGED <<loopEnv, loopTrace, loopCovered, sleepLeft, oldVars, traceIdVars, lateVars>>

\* the trace-filter query q is answered: on success the call sends its needle queries
LoopTraceRespond(q) ==
    /\ q \in inFlight
    /\ q.kind = "traceId"
    /\ \E ok \in QueryOutcomes(q.worker) :
           IF ok
           THEN /\ loopCalls' = [ loopCalls EXCEPT ![q.worker] = "needles" ]
                /\ inFlight' = (inFlight \ {q}) \cup NeedleQueries(q.attempt, q.worker)
           ELSE /\ loopCalls' = [ loopCalls EXCEPT ![q.worker] = "rejected" ]
                /\ inFlight' = inFlight \ {q}
    /\ UNCHANGED <<loopPc, loopEnv, loopTrace, loopAttempt, loopCovered, sleepLeft,
                   oldVars, traceIdVars, lateVars>>

\* the needle query q is answered.  Promise.all of its call rejects on the first
\* failure; the answer to a query of a call that is already rejected is dropped.
LoopNeedleRespond(q) ==
    /\ q \in inFlight
    /\ q.kind \in Range(TraceNeedles)
    /\ inFlight' = inFlight \ {q}
    /\ \E ok \in QueryOutcomes(q.worker), result \in CallResults(q.worker) :
           IF q.attempt # loopAttempt \/ loopCalls[q.worker] = "rejected"
           THEN UNCHANGED loopCalls
           ELSE IF ~ok
           THEN loopCalls' = [ loopCalls EXCEPT ![q.worker] = "rejected" ]
           ELSE IF \E r \in inFlight \ {q} : r.worker = q.worker /\ r.attempt = q.attempt
           THEN UNCHANGED loopCalls
           ELSE loopCalls' = [ loopCalls EXCEPT ![q.worker] = result ]
    /\ UNCHANGED <<loopPc, loopEnv, loopTrace, loopAttempt, loopCovered, sleepLeft,
                   oldVars, traceIdVars, lateVars>>

\* Promise.allSettled resolves: fetchWorkerLogs returns, the logs are merged and the
\* loop breaks, ends at the ceiling, or sleeps
LoopJoin ==
    /\ loopPc = "fetching"
    /\ \A w \in Workers : loopCalls[w] \in {"fulfilled", "empty", "rejected"}
    /\ LET merged == loopCovered \cup { w \in Workers : loopCalls[w] = "fulfilled" }
           missing == GetMissingWorkers(LoopExpectedWorkers, SortStrings(merged))
       IN  /\ loopCovered' = merged
           /\ IF missing = << >> \/ loopAttempt >= GetReenrichAttempts(loopEnv)
              THEN /\ loopPc' = "settled"
                   /\ UNCHANGED sleepLeft
              ELSE /\ loopPc' = "sleeping"
                   /\ sleepLeft' = GetReenrichDelayMs(loopEnv)
    /\ UNCHANGED <<loopEnv, loopTrace, loopAttempt, loopCalls, inFlight, oldVars, traceIdVars, lateVars>>

\* the delay passes
LoopDelay ==
    /\ loopPc = "sleeping"
    /\ sleepLeft > 0
    /\ sleepLeft' = 0
    /\ UNCHANGED <<loopPc, loopEnv, loopTrace, loopAttempt, loopCalls, inFlight, loopCovered,
                   oldVars, traceIdVars, lateVars>>

\* the timer of sleep fires: the next attempt sends its queries
LoopWake ==
    /\ loopPc = "sleeping"
    /\ sleepLeft = 0
    /\ loopAttempt' = loopAttempt + 1
    /\ loopCalls' = [ w \in Workers |-> "trace" ]
    /\ inFlight' = inFlight \cup TraceQueries(loopAttempt + 1)
    /\ loopPc' = "fetching"
    /\ UNCHANGED <<loopEnv, loopTrace, loopCovered, sleepLeft, oldVars, traceIdVars, lateVars>>

\* writeTraceArtifact
LoopPersist ==
    /\ loopPc = "settled"
    /\ loopPc' = "written"
    /\ UNCHANGED <<loopEnv, loopTrace, loopAttempt, loopCalls, inFlight, loopCovered,
                   sleepLeft, oldVars, traceIdVars, lateVars>>

\* the steps of the program
LoopProgram ==
    \/ LoopStart
    \/ LoopJoin
    \/ LoopWake
    \/ LoopPersist

\* the steps of the telemetry backend and of time
LoopBackend ==
    \/ \E q \in inFlight : LoopTraceRespond(q)
    \/ \E q \in inFlight : LoopNeedleRespond(q)
    \/ LoopDelay

LoopNext == LoopProgram \/ LoopBackend

SpecLoop == LoopInit /\ [][LoopNext]_vars

\* the program takes the steps it can take and timers fire; no fairness on the answers
\* of the backend, which may never come
SpecLoopFair == SpecLoop /\ WF_vars(LoopProgram) /\ WF_vars(LoopDelay)

-----------------------------------------------------------------------------
(* artifacts.ts: writeTraceArtifact applied to one trace directory.  The content of a
   per-service file is the event list it was written from. *)

WriteWorkers == { "fantasy-mcp", "auth-worker", "espn-client" }

\* the event lists a service has in the artifacts written
WriteEventLists == { << "ev-1" >>, << "ev-1", "ev-2" >> }

NoServerLogs == [ w \in {} |-> << >> ]

\* artifact.server_logs of the artifacts written: absent (undefined), or a mapping,
\* the empty one among them
WriteArtifacts ==
    { [ has_logs |-> FALSE, server_logs |-> NoServerLogs ] }
    \cup { [ has_logs |-> TRUE, server_logs |-> m ] :
             m \in UNION { [ S -> WriteEventLists ] : S \in SUBSET WriteWorkers } }

\* logs/ after writeTraceArtifact: untouched when artifact.server_logs || {} has no
\* key (the function returns before it reads the directory); otherwise a file per
\* key, and every other file of the directory unlinked
LogsDirWritten(logsDir, artifact) ==
    LET serverLogs == IF artifact.has_logs THEN artifact.server_logs ELSE NoServerLogs
        workerNames == DOMAIN serverLogs
    IN  IF Cardinality(workerNames) = 0 THEN logsDir
        ELSE [ w \in workerNames |-> serverLogs[w] ]

WriteInit ==
    /\ OldIdle
    /\ TraceIdIdle
    /\ LoopIdle
    /\ RunnerIdle
    /\ RunIdle
    /\ wrTrace = [ written |-> FALSE ]
    /\ wrLogsDir = NoServerLogs
    /\ wrCount = 0

\* writeTraceArtifact(runDir, artifact): trace.json, then logs/
WriteTraceArtifact ==
    /\ wrCount < MaxWrites
    /\ \E artifact \in WriteArtifacts :
         /\ wrTrace' = [ written |-> TRUE, has_logs |-> artifact.has_logs,
                         server_logs |-> artifact.server_logs ]
         /\ wrLogsDir' = LogsDirWritten(wrLogsDir, artifact)
    /\ wrCount' = wrCount + 1
    /\ UNCHANGED <<oldVars, traceIdVars, loopVars, runnerVars, runVars>>

WriteNext == WriteTraceArtifact

SpecWrite == WriteInit /\ [][WriteNext]_vars

-----------------------------------------------------------------------------
(* run.ts: main from the manifest to summary.json, and accept run on the finished run.
   What runScenario does is its outcome here: it returns an artifact or it raises. *)

CountOf(s, status) == Cardinality({ i \in 1..Len(s) : s[i] = status })

otherThanRunVars == <<isoVars, fetchVars, mergeVars, inferVars, enrichVars, traceIdVars,
                      loopVars, runnerVars, writeVars>>

RunInit ==
    /\ OldIdle
    /\ TraceIdIdle
    /\ LoopIdle
    /\ RunnerIdle
    /\ WriteIdle
    /\ runPc = "start"
    /\ scenarios \in 1..MaxScenarios
    /\ manifest = [ written |-> FALSE, trace_ids |-> << >> ]
    /\ results = << >>
    /\ written = {}
    /\ summary = [ written |-> FALSE, completed |-> 0, errored |-> 0 ]

\* manifest.json is written before the first scenario runs, with the trace id of
\* every scenario
RunWriteManifest ==
    /\ runPc = "start"
    /\ manifest' = [ written |-> TRUE, trace_ids |-> SubSeq(TraceIdPool, 1, scenarios) ]
    /\ runPc' = "loop"
    /\ UNCHANGED <<scenarios, results, written, summary, acceptVars, otherThanRunVars>>

\* one iteration of the loop, try branch: runScenario returns, the artifact is written
RunScenarioOk ==
    /\ runPc = "loop"
    /\ Len(results) < scenarios
    /\ written' = written \cup { manifest.trace_ids[Len(results) + 1] }
    /\ results' = Append(results, "ok")
    /\ UNCHANGED <<runPc, scenarios, manifest, summary, acceptVars, otherThanRunVars>>

\* one iteration of the loop, catch branch: runScenario raised; the scenario is
\* recorded with status "error" and nothing is written for its trace id
RunScenarioError ==
    /\ runPc = "loop"
    /\ Len(results) < scenarios
    /\ results' = Append(results, "error")
    /\ UNCHANGED <<runPc, scenarios, manifest, written, summary, acceptVars,
                   otherThanRunVars>>

\* after the loop: summary.json
RunWriteSummary ==
    /\ runPc = "loop"
    /\ Len(results) = scenarios
    /\ summary' = [ written |-> TRUE, completed |-> CountOf(results, "ok"),
                    errored |-> CountOf(results, "error") ]
    /\ runPc' = "finished"
    /\ UNCHANGED <<scenarios, manifest, results, written, acceptVars, otherThanRunVars>>

\* accept is started on the finished run, with or without the run id argument: what it
\* finds in the run directory is what the run wrote
RunAccept ==
    /\ runPc = "finished"
    /\ \E arg \in BOOLEAN :
         runDir' = [ arg |-> arg, exists |-> TRUE, has_summary |-> summary.written,
                     errored |-> summary.errored, trace_ids |-> manifest.trace_ids,
                     missing |-> Range(manifest.trace_ids) \ written ]
    /\ pc' = "start"
    /\ runPc' = "accepted"
    /\ UNCHANGED <<trace, assessments, acceptance, exitCode, scenarios, manifest, results,
                   written, summary, otherThanRunVars>>

RunNext ==
    \/ RunWriteManifest
    \/ RunScenarioOk
    \/ RunScenarioError
    \/ RunWriteSummary
    \/ RunAccept
    \/ AcceptUsageFail
    \/ AcceptStart
    \/ AcceptAssessTrace
    \/ AcceptTraceMissing
    \/ AcceptWriteSummary
    \/ AcceptExit

SpecRun == RunInit /\ [][RunNext]_vars

-----------------------------------------------------------------------------
(* Properties of the acceptance policy (accept.ts) *)

Last(s) == s[Len(s)]

\* the codes of the fail reasons of the written acceptance summary
FailCodes ==
    { acceptance.fail_reasons[i].code : i \in 1..Len(acceptance.fail_reasons) }

\* the trace ids the written acceptance summary lists under a fail code
FailTraceIds(code) ==
    UNION { Range(acceptance.fail_reasons[i].trace_ids) :
              i \in { j \in 1..Len(acceptance.fail_reasons) :
                        acceptance.fail_reasons[j].code = code } }

DownstreamWarnCodes ==
    {"MISSING_ESPN_CLIENT", "MISSING_YAHOO_CLIENT", "MISSING_SLEEPER_CLIENT"}

\* the assessed traces that carry at least one downstream missing-worker warning
WarningTraces ==
    { i \in 1..Len(assessments) :
        Range(assessments[i].warn_reasons) \cap DownstreamWarnCodes # {} }

\* the escalation rule as documented: n >= 2, or n/N > 20%, i.e. 5n > N
EscalationDue ==
    \/ Cardinality(WarningTraces) >= 2
    \/ 5 * Cardinality(WarningTraces) > Len(assessments)

\* the codes the documented rules put in the fail-reason collection
AggregatedFailCodes ==
    UNION { Range(assessments[i].fail_reasons) : i \in 1..Len(assessments) }
    \cup (IF runDir.errored > 0 THEN {"RUN_HAS_ERRORS"} ELSE {})
    \cup (IF EscalationDue THEN {"DOWNSTREAM_COVERAGE_ESCALATION"} ELSE {})

\* accept reached a verdict: the run directory was usable and every trace assessed
VerdictReached ==
    /\ pc = "exited"
    /\ runDir.arg /\ runDir.exists /\ runDir.has_summary
    /\ Len(assessments) = Len(runDir.trace_ids)

\* C1: final_status is "fail" iff the aggregated fail-reason collection (per-trace
\* hard fails, RUN_HAS_ERRORS, escalation) is non-empty, else "pass"; a process that
\* reached its verdict has written the summary before it exits, with status 1 when
\* final_status is "fail" and status 0 when it is "pass".
C1_FinalStatusAndExit ==
    /\ acceptance.written =>
         /\ FailCodes = AggregatedFailCodes
         /\ acceptance.final_status = (IF AggregatedFailCodes = {} THEN "pass" ELSE "fail")
    /\ VerdictReached =>
         /\ acceptance.written
         /\ exitCode = (IF acceptance.final_status = "fail" THEN "1" ELSE "0")
    /\ exitCode = "0" => acceptance.written /\ acceptance.final_status = "pass"

\* a failing run of several reasons has exited with status 1 after writing its summary
C1_Witness ==
    /\ VerdictReached
    /\ acceptance.written
    /\ acceptance.final_status = "fail"
    /\ Cardinality(FailCodes) >= 2
    /\ exitCode = "1"

\* C2: an assessed trace whose server_logs lack "fantasy-mcp" has fail reason
\* MISSING_FANTASY_MCP, one whose expected workers hold "auth-worker" while its
\* server_logs lack it has MISSING_AUTH_WORKER, and either reason makes the run's
\* final status "fail".
C2_MissingIngressOrAuthFails ==
    /\ trace # NoTrace =>
         LET a == Last(assessments)
         IN  /\ "fantasy-mcp" \notin DOMAIN trace.server_logs
                  => Includes(a.fail_reasons, "MISSING_FANTASY_MCP")
             /\ ( /\ Includes(a.expected_workers, "auth-worker")
                  /\ "auth-worker" \notin DOMAIN trace.server_logs )
                  => Includes(a.fail_reasons, "MISSING_AUTH_WORKER")
    /\ acceptance.written =>
         \A i \in 1..Len(assessments) :
           \A code \in {"MISSING_FANTASY_MCP", "MISSING_AUTH_WORKER"} :
             Includes(assessments[i].fail_reasons, code) =>
               /\ acceptance.final_status = "fail"
               /\ assessments[i].trace_id \in FailTraceIds(code)

\* a written summary of a trace that called get_user_session and has neither ingress
\* nor auth logs
C2_Witness ==
    /\ acceptance.written
    /\ trace # NoTrace
    /\ \E i \in 1..Len(trace.tool_calls) : trace.tool_calls[i].tool_name = "get_user_session"
    /\ DOMAIN trace.server_logs \cap {"fantasy-mcp", "auth-worker"} = {}
    /\ {"MISSING_FANTASY_MCP", "MISSING_AUTH_WORKER"} \subseteq FailCodes
    /\ acceptance.final_status = "fail"

\* the events of an event list that carry at least one trace-id candidate that
\* differs from the expected trace id
EventsWithForeignTrace(events, expectedTraceId) ==
    { i \in 1..Len(events) :
        \E c \in TraceCandidates(events[i]) : c # expectedTraceId }

\* the events of an event list that carry at least one run-id candidate that differs
\* from the expected run id
EventsWithForeignRun(events, expectedRunId) ==
    { i \in 1..Len(events) :
        \E c \in RunCandidates(events[i]) : c # expectedRunId }

\* the events that carry candidates all of which differ from the expected trace id
EventsAllForeignTrace(events, expectedTraceId) ==
    { i \in 1..Len(events) :
        /\ TraceCandidates(events[i]) # {}
        /\ \A c \in TraceCandidates(events[i]) : c # expectedTraceId }

\* the events that carry candidates all of which differ from the expected run id
EventsAllForeignRun(events, expectedRunId) ==
    { i \in 1..Len(events) :
        /\ RunCandidates(events[i]) # {}
        /\ \A c \in RunCandidates(events[i]) : c # expectedRunId }

\* C3 (as the code behaves): the Isolation Analyzer counts an event as trace
\* contamination (run mismatch) exactly when at least one of its trace-id (run-id)
\* candidates differs from the owning trace id (run id); an event without candidates
\* is not counted, an event with one matching and one differing candidate is.
C3_CountsAnyDifferingCandidate ==
    isoResult.done =>
      /\ isoResult.traceMismatchCount =
           Cardinality(EventsWithForeignTrace(isoInput.events, isoInput.trace_id))
      /\ isoResult.runMismatchCount =
           Cardinality(EventsWithForeignRun(isoInput.events, isoInput.run_id))

\* C3 (as stated): an event is counted only if it carries candidates and ALL of them
\* differ from the expected value; an event with a matching candidate is not counted.
C3_CountsOnlyAllDiffering ==
    isoResult.done =>
      /\ isoResult.traceMismatchCount <=
           Cardinality(EventsAllForeignTrace(isoInput.events, isoInput.trace_id))
      /\ isoResult.runMismatchCount <=
           Cardinality(EventsAllForeignRun(isoInput.events, isoInput.run_id))

\* the analyzer has counted an event whose structured trace id is the owner's and
\* whose message names another trace
C3_Witness ==
    /\ isoResult.done
    /\ isoResult.traceMismatchCount >= 1
    /\ \E i \in 1..Len(isoInput.events) :
         /\ isoInput.events[i].trace_id = isoInput.trace_id
         /\ OTHER_TRACE_ID \in Range(ParseTraceIdsFromMessage(isoInput.events[i].message))

\* the trace read last holds an event with a trace-id candidate that is not its own
TraceHasForeignCandidate ==
    \E w \in DOMAIN trace.server_logs :
      \E i \in 1..Len(trace.server_logs[w]) :
        \/ trace.server_logs[w][i].trace_id \notin {NoValue, trace.trace_id}
        \/ \E k \in 1..Len(trace.server_logs[w][i].message) :
             /\ trace.server_logs[w][i].message[k].kind \in {"trace_eq", "trace_json"}
             /\ trace.server_logs[w][i].message[k].id # trace.trace_id

\* C4: a trace with a log event, in any service list, that carries a trace-id
\* candidate (structured trace_id or a trace_id marker in its message) other than the
\* owning trace id gets fail reason TRACE_CONTAMINATION, the acceptance summary lists
\* the reason with that trace and the final status is "fail"; also when the event's
\* structured trace_id is the owner's and every expected worker is covered.
C4_ForeignTraceIdFails ==
    /\ (trace # NoTrace /\ TraceHasForeignCandidate)
         => Includes(Last(assessments).fail_reasons, "TRACE_CONTAMINATION")
    /\ acceptance.written =>
         \A i \in 1..Len(assessments) :
           Includes(assessments[i].fail_reasons, "TRACE_CONTAMINATION") =>
             /\ acceptance.final_status = "fail"
             /\ assessments[i].trace_id \in FailTraceIds("TRACE_CONTAMINATION")

\* a written summary of a fully covered trace with an event whose structured
\* trace_id is the owner's and whose message names another trace
C4_Witness ==
    /\ acceptance.written
    /\ trace # NoTrace
    /\ Last(assessments).missing_workers = << >>
    /\ \E w \in DOMAIN trace.server_logs :
         \E i \in 1..Len(trace.server_logs[w]) :
           /\ trace.server_logs[w][i].trace_id = trace.trace_id
           /\ OTHER_TRACE_ID \in
                Range(ParseTraceIdsFromMessage(trace.server_logs[w][i].message))
    /\ trace.trace_id \in FailTraceIds("TRACE_CONTAMINATION")
    /\ acceptance.final_status = "fail"

\* the expected worker coverage as documented: "fantasy-mcp" always, "auth-worker"
\* if get_user_session appears, and the client of every platform the tool args name
RoutingExpectedWorkers(toolCalls) ==
    {"fantasy-mcp"}
    \cup (IF \E i \in 1..Len(toolCalls) : toolCalls[i].tool_name = "get_user_session"
          THEN {"auth-worker"} ELSE {})
    \cup { p \in {"espn-client", "yahoo-client", "sleeper-client"} :
             \E i \in 1..Len(toolCalls) :
               toolCalls[i].platform # NoValue
               /\ p = (IF toolCalls[i].platform = "espn" THEN "espn-client"
                       ELSE IF toolCalls[i].platform = "yahoo" THEN "yahoo-client"
                       ELSE "sleeper-client") }

DownstreamWorkers == {"espn-client", "yahoo-client", "sleeper-client"}

MissingWorkerCode(worker) ==
    IF worker = "espn-client" THEN "MISSING_ESPN_CLIENT"
    ELSE IF worker = "yahoo-client" THEN "MISSING_YAHOO_CLIENT"
    ELSE "MISSING_SLEEPER_CLIENT"

\* C5: for an assessed trace, every downstream platform-integration service
\* (espn-client, yahoo-client, sleeper-client) that is expected and has no logs puts
\* its missing-worker code in the trace's warn reasons, makes the trace a
\* downstream-warning trace for escalation, and adds no hard-fail reason of its own.
C5_DownstreamMissWarns ==
    trace # NoTrace =>
      LET a == Last(assessments)
      IN  \A worker \in DownstreamWorkers :
            ( /\ worker \in RoutingExpectedWorkers(trace.tool_calls)
              /\ worker \notin DOMAIN trace.server_logs )
            => /\ Includes(a.warn_reasons, MissingWorkerCode(worker))
               /\ HasDownstreamWarn(a)
               /\ Range(a.fail_reasons) \subseteq
                    { "MISSING_FANTASY_MCP", "MISSING_AUTH_WORKER",
                      "TRACE_CONTAMINATION", "RUN_ID_MISMATCH" }

\* C6: with n the assessed traces carrying a downstream missing-worker warning and N
\* the assessed traces, the summary holds DOWNSTREAM_COVERAGE_ESCALATION iff n >= 2 or
\* 5n > N, and the reason's trace_ids are exactly the warning traces; one warning
\* trace among five otherwise clean traces passes, two warning traces fail.
C6_EscalationThresholds ==
    acceptance.written =>
      LET n == Cardinality(WarningTraces)
          N == Len(assessments)
          othersClean == /\ runDir.errored = 0
                         /\ \A i \in 1..N : assessments[i].fail_reasons = << >>
      IN  /\ "DOWNSTREAM_COVERAGE_ESCALATION" \in FailCodes <=> (n >= 2 \/ 5 * n > N)
          /\ "DOWNSTREAM_COVERAGE_ESCALATION" \in FailCodes =>
               FailTraceIds("DOWNSTREAM_COVERAGE_ESCALATION") =
                 { assessments[i].trace_id : i \in WarningTraces }
          /\ (N = 5 /\ n = 1 /\ othersClean) => acceptance.final_status = "pass"
          /\ n = 2 => acceptance.final_status = "fail"

\* a written summary of five traces, one of them with a downstream warning, that passes
C6_Witness ==
    /\ acceptance.written
    /\ Len(assessments) = 5
    /\ Cardinality(WarningTraces) = 1
    /\ acceptance.warnings = 1
    /\ acceptance.final_status = "pass"

\* C7: a run whose summary.json reports errored > 0 gets final status "fail" and the
\* fail reason RUN_HAS_ERRORS whatever its traces' coverage and isolation; with
\* errored = 0 the reason is absent.
C7_RunHasErrors ==
    acceptance.written =>
      /\ runDir.errored > 0 =>
           /\ acceptance.final_status = "fail"
           /\ "RUN_HAS_ERRORS" \in FailCodes
      /\ runDir.errored = 0 => "RUN_HAS_ERRORS" \notin FailCodes

\* a written summary of an errored run whose traces are all clean
C7_Witness ==
    /\ acceptance.written
    /\ runDir.errored > 0
    /\ Len(assessments) >= 2
    /\ \A i \in 1..Len(assessments) :
         assessments[i].fail_reasons = << >> /\ assessments[i].warn_reasons = << >>
    /\ FailCodes = {"RUN_HAS_ERRORS"}
    /\ acceptance.final_status = "fail"

-----------------------------------------------------------------------------
(* Properties of the query client (cloudflare-logs.ts) *)

\* the strict result of worker w's call is known: the call returned it, or holds it
\* while the run needle query is in flight
StrictResultOf(w) ==
    IF wq[w].pc = "fallback" \/ (wq[w].pc = "fulfilled" /\ <<w, "eval">> \notin issued)
    THEN [ known |-> TRUE, events |-> wq[w].events ]
    ELSE [ known |-> FALSE, events |-> NoEvents ]

\* C8: the strict result for a service is exactly the de-duplicated union of the raw
\* events the trace-filter query and the needle queries returned whose resolved trace
\* id is the target's and whose run ids (structured, or recovered from the messages)
\* are none or only the target run's; an event with the target's trace id and no run
\* id anywhere is kept.
C8_StrictResultKeepsEventsWithoutRunId ==
    \A w \in DOMAIN wq :
      StrictResultOf(w).known =>
        LET returned == Range(wq[w].strictTraceEvents) \cup Range(wq[w].jsonBatch)
                        \cup Range(wq[w].eqBatch)
            result   == StrictResultOf(w).events
        IN  /\ Range(result) =
                 { e \in returned : /\ GetEventTraceId(e) = FetchTraceId
                                    /\ EventRunCandidates(e) \subseteq {FetchRunId} }
            /\ \A i, j \in 1..Len(result) :
                 EventKey(result[i]) = EventKey(result[j]) => i = j

\* the run ids a returned log event shows: its run_id and the eval= markers of its message
LogRunIds(e) ==
    (IF e.run_id # NoValue THEN {e.run_id} ELSE {})
    \cup Range(ParseRunIdsFromMessage(e.message))

AdmittedFor(w) ==
    LET strict == StrictEvents(BackendEvents[w]["traceId"], BackendEvents[w]["needle_json"],
                               BackendEvents[w]["needle_eq"], FetchRunId, FetchTraceId)
    IN  IF AllowRunFallback(env) /\ w = "fantasy-mcp"
        THEN DedupeEvents(strict \o
               FallbackEvents(BackendEvents[w]["eval"], FetchRunId, FetchTraceId))
        ELSE strict

-----------------------------------------------------------------------------
(* logs-merge.ts *)

\* C15: mergeServerLogs is idempotent: for every mapping X, merge(X, X) has the
\* services of X and, for each service, the event list of X (the same events in the
\* same order, compared by content).
C15_MergeIdempotent ==
    mergeOut.done => mergeOut.aa = mergeIn.a

\* what holds instead: merge(X, X) has the services of X, each with its list
\* deduplicated by key (the first event of a key is kept)
MergeSelfDedupes ==
    mergeOut.done =>
        /\ DOMAIN mergeOut.aa = DOMAIN mergeIn.a
        /\ \A w \in DOMAIN mergeIn.a : mergeOut.aa[w] = DedupeLogEvents(mergeIn.a[w])

\* the events of list new whose key no event of list old has and no earlier event
\* of new has
NewEvents(old, new) ==
    SelectSeq(DedupeLogEvents(new),
              LAMBDA e : \A i \in 1..Len(old) : LogEventKey(old[i]) # LogEventKey(e))

MergeAssociative == mergeOut.done => mergeOut.ab_c = mergeOut.a_bc

\* C16: mergeServerLogs is associative and order-preserving: merge(merge(A, B), C) and
\* merge(A, merge(B, C)) have the same services and equal lists, and within each
\* service of merge(A, B) the events of A come first, in their order, followed by the
\* events of B not already present, in their order.
C16_MergeAssociativeOrdered ==
    mergeOut.done =>
        /\ mergeOut.ab_c = mergeOut.a_bc
        /\ DOMAIN mergeOut.ab = DOMAIN mergeIn.a \cup DOMAIN mergeIn.b
        /\ \A w \in DOMAIN mergeOut.ab :
             LET listA == IF w \in DOMAIN mergeIn.a THEN mergeIn.a[w] ELSE << >>
                 listB == IF w \in DOMAIN mergeIn.b THEN mergeIn.b[w] ELSE << >>
             IN  mergeOut.ab[w] = listA \o NewEvents(listA, listB)

\* what holds instead: the list of A is deduplicated too when B has the service
MergeOrderedUpToDuplicates ==
    mergeOut.done =>
        /\ DOMAIN mergeOut.ab = DOMAIN mergeIn.a \cup DOMAIN mergeIn.b
        /\ \A w \in DOMAIN mergeOut.ab :
             LET listA == IF w \in DOMAIN mergeIn.a THEN mergeIn.a[w] ELSE << >>
                 listB == IF w \in DOMAIN mergeIn.b THEN mergeIn.b[w] ELSE << >>
             IN  mergeOut.ab[w] =
                   IF w \in DOMAIN mergeIn.b
                   THEN DedupeLogEvents(listA) \o NewEvents(listA, listB)
                   ELSE listA


-----------------------------------------------------------------------------
(* coverage.ts: inferExpectedWorkers *)

\* s is sorted in the order of SortedNames (the lexicographic order of the worker
\* names) with no name twice
StrictlySorted(s) ==
    \A i, j \in 1..Len(s) :
        i < j => \E a, b \in 1..Len(SortedNames) :
                    a < b /\ SortedNames[a] = s[i] /\ SortedNames[b] = s[j]

\* the orderings of the list calls
Reorderings(calls) ==
    { [ i \in 1..Len(calls) |-> calls[f[i]] ] :
        f \in { g \in [ 1..Len(calls) -> 1..Len(calls) ] :
                  \A i, j \in 1..Len(calls) : g[i] = g[j] => i = j } }

C18_SleeperClientExpected ==
    inferOut.done =>
        /\ (\E i \in 1..Len(inferIn) : inferIn[i].platform = "sleeper")
              => Includes(inferOut.workers, "sleeper-client")
        /\ ( /\ \E i \in 1..Len(inferIn) : inferIn[i].tool_name = "get_user_session"
             /\ \A p \in {"espn", "yahoo", "sleeper"} :
                  \E i \in 1..Len(inferIn) : inferIn[i].platform = p )
              => inferOut.workers = << "auth-worker", "espn-client", "fantasy-mcp",
                                       "sleeper-client", "yahoo-client" >>
        /\ \A w \in Workers \ {"fantasy-mcp", "auth-worker"} :
              \E calls \in SeqsUpTo(InferCalls, 1) :
                  Includes(InferExpectedWorkers(calls), w)

\* no tool-call list makes inferExpectedWorkers expect "sleeper-client"
SleeperClientNeverExpected ==
    inferOut.done => ~Includes(inferOut.workers, "sleeper-client")


-----------------------------------------------------------------------------
(* enrich.ts: the attempt loop *)

\* the expected workers of trace t that have no events in the mapping serverLogs
MissingIn(serverLogs, t) ==
    GetMissingWorkers(InferExpectedWorkers(disk[t].tool_calls), GetActualWorkers(serverLogs))

\* the step in which enrichTrace writes the artifact of the trace at the head of the queue
PersistStep == enPc = "settled" /\ enPc' = "loop"
\* the re-enrichment command is running or has run (the run itself is over)
InPass == enPc \notin {"scenario", "initial", "built"}

\* the step in which enrichTrace calls fetchWorkerLogs
FetchStep == enPc = "attempt" /\ fetchCount' = fetchCount + 1

\* what the loop does for a ceiling c >= 1: a fetch after the first is made only while
\* a worker is missing and the ceiling is not reached; the artifact is written with the
\* number of fetches made, when no worker is missing or the ceiling is reached
LoopContract(c) ==
    /\ FetchStep =>
         /\ fetchCount < c
         /\ fetchCount >= 1 => Len(MissingIn(selectedLogs, Head(queue))) > 0
    /\ PersistStep =>
         LET t == Head(queue)
             stored == disk'[t].enrichment
         IN  /\ 1 <= fetchCount /\ fetchCount <= c
             /\ stored.attempts = fetchCount
             /\ stored.missing_workers = MissingIn(selectedLogs, t)
             /\ Len(stored.missing_workers) = 0 \/ stored.attempts = c
             /\ tally'.completed = tally.completed + 1 /\ tally'.failed = tally.failed

\* C11: one re-enrichment of a trace makes at least one and at most C fetches (C the
\* attempt ceiling, default 6, always >= 1); the stored enrichment.attempts is the
\* smallest k >= 1 for which the stored logs merged with the results of fetches 1..k
\* cover every expected worker, or C when there is none, and no fetch follows it; with
\* full coverage at the first fetch attempts is 1 and missing_workers is empty; when a
\* worker never appears attempts is C and missing_workers is stored non-empty, and
\* nothing is raised.
C11_AttemptsUntilCoveredOrCeiling ==
    [][ /\ PersistStep => GetReenrichAttempts(enEnv) >= 1
        /\ LoopContract(GetReenrichAttempts(enEnv)) ]_vars

\* what holds instead: the contract for a ceiling of at least 1, and for the ceiling
\* 0 (the setting 0.5) no fetch at all and attempts stored as 0
AttemptsWithCeilingZero ==
    [][ /\ GetReenrichAttempts(enEnv) >= 1 => LoopContract(GetReenrichAttempts(enEnv))
        /\ GetReenrichAttempts(enEnv) = 0 =>
             /\ ~FetchStep
             /\ PersistStep => /\ fetchCount = 0
                               /\ disk'[Head(queue)].enrichment.attempts = 0 ]_vars

\* a trace was stored after zero fetches
ZeroAttemptsStored ==
    \E t \in DOMAIN disk :
        /\ disk[t].enrichment.present
        /\ disk[t].enrichment.mode = "reenrich"
        /\ disk[t].enrichment.attempts = 0


\* list s is the beginning of list t
IsPrefix(s, t) == Len(s) <= Len(t) /\ \A i \in 1..Len(s) : s[i] = t[i]

\* C12: when the queries of one, several or all workers fail in an attempt, the loop
\* is not aborted: the attempt adds no event for a failed worker, the events merged
\* before (each the first of its key in its list) stay as they are and where they
\* are, the loop goes on until no worker is missing or the ceiling is reached, the
\* trace is then stored with the merged logs, and no error is raised.
C12_QueryFailuresTolerated ==
    [][ /\ (FetchStep /\ lastFetch'.failed # {}) =>
             /\ \A w \in lastFetch'.failed :
                  /\ w \in DOMAIN selectedLogs' <=> w \in DOMAIN selectedLogs
                  /\ w \in DOMAIN selectedLogs => selectedLogs'[w] = selectedLogs[w]
             /\ \A w \in DOMAIN selectedLogs :
                  /\ w \in DOMAIN selectedLogs'
                  /\ IsPrefix(DedupeLogEvents(selectedLogs[w]), selectedLogs'[w])
             /\ enPc' = IF \/ Len(MissingIn(selectedLogs', Head(queue))) = 0
                           \/ fetchCount' >= GetReenrichAttempts(enEnv)
                        THEN "settled" ELSE "attempt"
             /\ UNCHANGED <<tally, enExit, disk, queue>>
        /\ enPc = "settled" =>
             /\ PersistStep
             /\ tally'.completed = tally.completed + 1 /\ tally'.failed = tally.failed
             /\ enExit' = NoValue
             /\ DOMAIN selectedLogs # {} => disk'[Head(queue)].server_logs = selectedLogs
             /\ disk'[Head(queue)].enrichment.attempts = fetchCount ]_vars

\* after an attempt in which every worker's queries failed the loop goes on, with the
\* logs of an earlier attempt still held
C12_Witness ==
    /\ enPc = "attempt"
    /\ fetchCount >= 2
    /\ lastFetch.fetched /\ lastFetch.failed = Workers
    /\ "auth-worker" \in DOMAIN selectedLogs


-----------------------------------------------------------------------------
(* enrich.ts: repeated passes *)

\* every event of the artifacts as they were before the pass is in the same worker's
\* list now, equal in all fields; no worker with logs has lost them; the notes of
\* before are the beginning of the notes now
RetainedSince(old, new) ==
    \A t \in DOMAIN old :
        /\ AllStored(old[t].server_logs, new[t].server_logs)
        /\ DOMAIN old[t].server_logs \subseteq DOMAIN new[t].server_logs
        /\ IsPrefix(old[t].notes, new[t].notes)

\* C13: re-enrichment can be run any number of times: after every pass each log event
\* stored before the pass is still in its worker's list with all fields equal, the set
\* of workers with logs has not shrunk, the notes stored before are a prefix of the
\* notes, and a pass in which the API returns only events already stored leaves the
\* content of server_logs unchanged.
C13_RerunKeepsLogsAndNotes ==
    [][ /\ RetainedSince(before, disk)'
        /\ (PersistStep /\ lastFetch.known) =>
             disk'[Head(queue)].server_logs = disk[Head(queue)].server_logs ]_vars

\* what holds instead: of the events stored before the pass, the first of each key
\* stays at the head of its list; workers and notes as claimed
RetainedUpToDuplicates ==
    \A t \in DOMAIN before :
        /\ \A w \in DOMAIN before[t].server_logs :
             /\ w \in DOMAIN disk[t].server_logs
             /\ IsPrefix(DedupeLogEvents(before[t].server_logs[w]), disk[t].server_logs[w])
        /\ IsPrefix(before[t].notes, disk[t].notes)


\* the traces a re-enrichment has stored
Reenriched == { t \in DOMAIN disk : disk[t].enrichment.mode = "reenrich" }

\* no list stored for a re-enriched trace holds two events with one key
StoredKeysDistinct ==
    \A t \in Reenriched :
        \A w \in DOMAIN disk[t].server_logs :
            \A i, j \in 1..Len(disk[t].server_logs[w]) :
                LogEventKey(disk[t].server_logs[w][i]) = LogEventKey(disk[t].server_logs[w][j])
                    => i = j

\* the raw event AuthEvent, whatever calls returned it, is stored at most once
RawEventStoredOnce ==
    \A t \in Reenriched :
        \A w \in DOMAIN disk[t].server_logs :
            \A i, j \in 1..Len(disk[t].server_logs[w]) :
                ( /\ \E n \in 1..Len(ClockStamps) :
                       disk[t].server_logs[w][i] = ToLogEvent(AuthEvent(t), Stamp(n))
                  /\ \E n \in 1..Len(ClockStamps) :
                       disk[t].server_logs[w][j] = ToLogEvent(AuthEvent(t), Stamp(n)) )
                    => i = j

\* C14: after any sequence of attempts and passes no per-worker list of the stored
\* server_logs holds a duplicate: no two events agree on all fields of the key
\* (timestamp, service, phase, request id, trace id, run id, tool, message, status,
\* status text, duration), and a raw telemetry event (one provider event id) returned
\* by several queries, attempts or passes is in the list at most once.
C14_StoredLogsHaveNoDuplicates == StoredKeysDistinct /\ RawEventStoredOnce

\* what holds instead: a list that received events in the pass has distinct keys
MergedListsHaveDistinctKeys ==
    [][ PersistStep =>
          \A w \in DOMAIN selectedLogs :
              ( \/ w \notin DOMAIN disk[Head(queue)].server_logs
                \/ selectedLogs[w] # disk[Head(queue)].server_logs[w] )
                  => \A i, j \in 1..Len(selectedLogs[w]) :
                         LogEventKey(selectedLogs[w][i]) = LogEventKey(selectedLogs[w][j])
                             => i = j ]_vars


-----------------------------------------------------------------------------
(* enrich.ts: runCli *)

\* the requested traces enrichTrace raises for: no trace.json, or an invalid timestamp
RaisingTraces ==
    { t \in Range(enEnv.traceIds) : ~disk[t].present \/ ~disk[t].valid }

\* runCli got to its loop over the traces
LoopRan == enEnv.runId /\ enEnv.credentials /\ enEnv.runDir /\ Len(enEnv.traceIds) > 0

\* what the run leaves when its loop ran: every requested trace that does not raise
\* was enriched and written in this pass, whatever happened to the others and whether
\* or not workers are still missing, and is counted as completed
AllOthersEnriched ==
    LoopRan =>
        /\ \A t \in Range(enEnv.traceIds) \ RaisingTraces :
             /\ disk[t].enrichment.mode = "reenrich"
             /\ Len(disk[t].notes) = Len(before[t].notes) + 2
        /\ tally.completed = Cardinality(Range(enEnv.traceIds) \ RaisingTraces)
        /\ tally.failed = Cardinality(RaisingTraces)

\* C20 as stated: the command exits non-zero exactly when an unrecoverable error
\* occurred (credentials or run directory absent, or enriching at least one requested
\* trace raised); a trace with workers still missing after the ceiling counts as
\* updated and does not affect the status; an error in one trace does not keep the
\* other requested traces from being enriched and stored.
C20_ExitStatusAsStated ==
    enPc = "exited" =>
        /\ enExit = "1" <=> ( \/ ~enEnv.credentials
                              \/ ~enEnv.runDir
                              \/ LoopRan /\ RaisingTraces # {} )
        /\ enExit \in {"0", "1"}
        /\ AllOthersEnriched

\* C20, amended: the command also exits non-zero when it is given no run id and when
\* no trace is found for the run.
C20_ExitStatus ==
    enPc = "exited" =>
        /\ enExit = "1" <=> ( \/ ~enEnv.runId
                              \/ ~enEnv.credentials
                              \/ ~enEnv.runDir
                              \/ Len(enEnv.traceIds) = 0
                              \/ RaisingTraces # {} )
        /\ enExit \in {"0", "1"}
        /\ AllOthersEnriched

\* the first trace has no artifact, the second was enriched and stored, and the
\* command exited with status 1
C20_Witness ==
    /\ enPc = "exited"
    /\ enExit = "1"
    /\ ~disk[EnrichTraceIds[1]].present
    /\ disk[EnrichTraceIds[2]].enrichment.mode = "reenrich"
    /\ tally = [ completed |-> 1, failed |-> 1 ]

\* the command exited with status 0 and left a trace with a worker missing
ExitZeroWithMissingWorkers ==
    /\ enPc = "exited"
    /\ enExit = "0"
    /\ \E t \in Range(enEnv.traceIds) : Len(disk[t].enrichment.missing_workers) > 0


-----------------------------------------------------------------------------
(* accept.ts: a trace artifact is absent *)

\* the position in the run's trace ids of the first one without a trace.json
FirstMissing ==
    CHOOSE i \in 1..Len(runDir.trace_ids) :
        /\ runDir.trace_ids[i] \in runDir.missing
        /\ \A j \in 1..(i - 1) : runDir.trace_ids[j] \notin runDir.missing

\* C19: when the artifact of a trace id resolved for the run is absent, acceptance
\* halts with a non-zero exit status at that trace: the trace is not skipped (every
\* assessment is of the trace id at its position, none of an absent artifact, and
\* none of a trace after the absent one), no verdict is computed from the other
\* traces, and the acceptance summary is not written.
C19_MissingArtifactHalts ==
    /\ \A i \in 1..Len(assessments) :
         /\ assessments[i].trace_id = runDir.trace_ids[i]
         /\ runDir.trace_ids[i] \notin runDir.missing
    /\ runDir.missing # {} =>
         /\ Len(assessments) < FirstMissing
         /\ ~acceptance.written
         /\ acceptance = NoAcceptance
         /\ pc \in {"start", "loop", "exited"}
         /\ exitCode \in {NoValue, "1"}
         /\ pc = "exited" => (exitCode = "1" /\ Len(assessments) = FirstMissing - 1)

\* acceptance halted at an absent artifact after assessing a trace, with a trace left
C19_Witness ==
    /\ pc = "exited"
    /\ exitCode = "1"
    /\ runDir.missing # {}
    /\ Len(assessments) >= 1
    /\ Len(runDir.trace_ids) > Len(assessments) + 1
    /\ ~acceptance.written

-----------------------------------------------------------------------------
(* Properties of the trace id generator (trace.ts) *)

\* C21: createTraceId is deterministic and run-scoped: equal (scenario id, index, run id)
\* give the same trace id, and for every scenario id and index two different run ids in
\* the format of the harness give two different trace ids.
C21_TraceIdDeterministicAndRunScoped ==
    traceIdOut.done =>
        /\ traceIdOut.again = traceIdOut.first
        /\ traceIdIn.runId # traceIdIn.otherRunId => traceIdOut.first # traceIdOut.second

\* the trace ids of two runs are equal exactly when the run ids agree from the month on
TraceIdScopedFromMonth ==
    traceIdOut.done =>
        /\ traceIdOut.again = traceIdOut.first
        /\ (traceIdOut.first = traceIdOut.second) <=>
               (SubSeq(traceIdIn.runId, 5, Len(traceIdIn.runId))
                    = SubSeq(traceIdIn.otherRunId, 5, Len(traceIdIn.otherRunId)))

\* two runs a year apart produced the same trace id
SameTraceIdAYearApart ==
    /\ traceIdOut.done
    /\ traceIdIn.runId = RunIdAt(<<"2", "0", "2", "6">>, <<"1", "1">>)
    /\ traceIdIn.otherRunId = RunIdAt(<<"2", "0", "2", "7">>, <<"1", "1">>)
    /\ traceIdOut.first = traceIdOut.second

\* the trace id the test of the harness expects for a scenario id with special characters
TraceIdAsTested ==
    CreateTraceId(<<"W", "h", "o", " ", "i", "s", " ", "o", "n", " ", "m", "y", " ", "r", "o", "s", "t", "e", "r", "?", "!">>, 7, RunIdAt(<<"2", "0", "2", "6">>, <<"1", "1">>)) = <<"t", "r", "a", "c", "e", "_", "w", "h", "o", "_", "i", "s", "_", "o", "n", "_", "m", "y", "_", "r", "o", "s", "t", "e", "r", "_", "0", "0", "7", "_", "0", "2", "_", "0", "7", "t", "0", "2", "_", "1", "1", "_", "1", "2", "z">>

-----------------------------------------------------------------------------
(* Properties of the concurrency of the query client (cloudflare-logs.ts) *)

\* the queries of worker w that are sent and not yet answered
InFlight(w) == IF w \in DOMAIN wq THEN wq[w].pending ELSE {}

\* C23: within one fetchWorkerLogs call the sub-queries of one service run concurrently:
\* the needle queries are issued without waiting for the trace-filter query to complete,
\* so whenever the trace-filter query of a service has been sent its needle queries have
\* been sent too.
C23_SubQueriesIssuedTogether ==
    \A w \in Workers :
        <<w, "traceId">> \in issued => \A k \in Range(TraceNeedles) : <<w, k>> \in issued

\* a needle query of a service is only in flight once its trace-filter query is answered
NeedlesWaitForTraceQuery ==
    \A w \in Workers :
        /\ ~("traceId" \in InFlight(w) /\ InFlight(w) \cap Range(TraceNeedles) # {})
        /\ InFlight(w) \cap Range(TraceNeedles) # {} =>
               wq[w].pc \in {"needles", "rejected"}

\* the trace-filter query of a service is in flight and none of its needle queries is sent
TraceQueryAloneInFlight ==
    \E w \in Workers :
        /\ InFlight(w) = {"traceId"}
        /\ \A k \in Range(TraceNeedles) : <<w, k>> \notin issued

\* queries of two services, and the two needle queries of one service, are in flight at once
ServicesInFlightTogether ==
    /\ InFlight("fantasy-mcp") = Range(TraceNeedles)
    /\ InFlight("auth-worker") = {"traceId"}

-----------------------------------------------------------------------------
(* Properties of the attempt loop of enrichTrace (enrich.ts) *)

\* C22: the attempt loop is strictly sequential: no query of attempt k+1 is issued while
\* a query of attempt k is in flight, so queries of two attempts are never outstanding at
\* the same time.
C22_AttemptsStrictlySequential ==
    \A p \in inFlight, q \in inFlight : p.attempt = q.attempt

\* a needle query of attempt 1 is in flight together with queries of attempt 2
TwoAttemptsInFlight ==
    /\ loopAttempt = 2
    /\ \E p \in inFlight : p.attempt = 1 /\ p.kind \in Range(TraceNeedles)
    /\ \E q \in inFlight : q.attempt = 2

\* a query that outlives its fetchWorkerLogs call is a needle query of the unreliable
\* worker, left behind by a call that was rejected
OnlyDroppedNeedlesOutliveTheCall ==
    \A q \in inFlight :
        (q.attempt < loopAttempt \/ loopPc # "fetching") =>
            /\ q.kind \in Range(TraceNeedles)
            /\ q.worker \in UnreliableWorkers

\* an attempt after the first starts from the sleep of the attempt before it, when the
\* delay has passed and every call of that attempt is settled
NextAttemptAfterDelay ==
    [][ (loopAttempt >= 1 /\ loopAttempt' # loopAttempt) =>
            /\ loopAttempt' = loopAttempt + 1
            /\ loopPc = "sleeping"
            /\ sleepLeft = 0
            /\ \A w \in Workers : loopCalls[w] \in {"fulfilled", "empty", "rejected"} ]_vars

\* C24: every re-enrichment pass eventually completes and persists the trace, also when
\* a telemetry query never responds.
C24_PassEventuallyPersists == <>(loopPc = "written")

\* a pass in which every query is answered in the end persists the trace
PersistsWhenAnswered == ([]<>(inFlight = {})) => <>(loopPc = "written")

\* the call of a worker waits for a query and no step of the program is possible
WaitingForAnAnswer ==
    /\ loopPc = "fetching"
    /\ \E w \in Workers : loopCalls[w] \in {"trace", "needles"}
    /\ ~ENABLED LoopProgram

\* the expansion step: the setting rounded down if it is a positive number, else 30000
ExpansionStep ==
    IF loopEnv.expand.set /\ loopEnv.expand.halves > 0
    THEN loopEnv.expand.halves \div 2
    ELSE 30000

\* the timeframe of a query of attempt k, as stated
StatedFrom(k) ==
    loopTrace.timestamp - (IF loopTrace.duration > 0 THEN loopTrace.duration ELSE 0)
        - 120000 - (k - 1) * ExpansionStep - 30000
StatedTo(k) == loopTrace.timestamp + 300000 + (k - 1) * ExpansionStep + 30000

\* C25: every telemetry query issued on attempt k carries the timeframe
\* from = T - max(D,0) - 120000 - (k-1)*step - 30000, to = T + 300000 + (k-1)*step + 30000
\* with step never negative; the queries of one attempt share one window, and the window
\* of attempt k+1 contains the window of attempt k.
C25_QueryTimeframes ==
    /\ ExpansionStep >= 0
    /\ \A q \in inFlight :
           /\ q.attempt >= 1
           /\ q.from = StatedFrom(q.attempt)
           /\ q.to = StatedTo(q.attempt)
           /\ \A p \in inFlight :
                  /\ p.attempt = q.attempt => p.from = q.from /\ p.to = q.to
                  /\ p.attempt = q.attempt + 1 => p.from <= q.from /\ p.to >= q.to

\* needle queries of the second attempt are in flight for a trace with a positive
\* duration and the default step, next to a query of the first attempt
C25_Witness ==
    /\ loopTrace.duration > 0
    /\ ExpansionStep = 30000
    /\ \E q \in inFlight, p \in inFlight :
           /\ q.attempt = 2
           /\ q.kind = "needle_eq"
           /\ q.to - q.from = 2500 + 120000 + 300000 + 2 * 30000 + 2 * 30000
           /\ p.attempt = 1

-----------------------------------------------------------------------------
(* The query client (cloudflare-logs.ts) against the isolation analysis (accept.ts) *)

\* the artifact of the fetched trace with the returned logs as its server_logs
FetchedArtifact == Artifact(FetchTraceId, << >>, NoEnrichment, logs)

\* C29: with the legacy fallback disabled, every event fetchWorkerLogs returns for
\* (run r, trace t) is counted by analyzeTraceIsolation for (t, r) neither as trace
\* contamination nor as run mismatch, so the trace never receives TRACE_CONTAMINATION or
\* RUN_ID_MISMATCH at acceptance.
C29_AdmittedEventsPassIsolation ==
    (fetchPc = "returned" /\ ~AllowRunFallback(env)) =>
        /\ \A w \in DOMAIN logs :
               LET counts == AnalyzeTraceIsolation(logs[w], FetchTraceId, FetchRunId)
               IN  counts.traceMismatchCount = 0 /\ counts.runMismatchCount = 0
        /\ ~Includes(AssessTrace(FetchedArtifact).fail_reasons, "TRACE_CONTAMINATION")
        /\ ~Includes(AssessTrace(FetchedArtifact).fail_reasons, "RUN_ID_MISMATCH")

\* with the fallback disabled no returned event is a run mismatch, and a returned event
\* is counted as contamination only for a trace id its message names
StrictEventsMismatchOnlyByMessage ==
    (fetchPc = "returned" /\ ~AllowRunFallback(env)) =>
        \A w \in DOMAIN logs : \A i \in 1..Len(logs[w]) :
            /\ ~RunMismatch(logs[w][i], FetchRunId)
            /\ logs[w][i].trace_id = FetchTraceId
            /\ TraceMismatch(logs[w][i], FetchTraceId) =>
                   \E c \in Range(ParseTraceIdsFromMessage(logs[w][i].message)) :
                       c # FetchTraceId

\* a strict fetch returned an event of the trace whose message names another trace, and
\* acceptance reports the trace as contaminated
AdmittedEventIsContamination ==
    /\ fetchPc = "returned"
    /\ ~AllowRunFallback(env)
    /\ "sleeper-client" \in DOMAIN logs
    /\ logs["sleeper-client"] = ToLogEvents(<< ForeignMentionEvent >>, FetchNow)
    /\ Includes(AssessTrace(FetchedArtifact).fail_reasons, "TRACE_CONTAMINATION")

-----------------------------------------------------------------------------
(* Properties of the writes of the re-enrichment command (enrich.ts) *)

RaisedAndWritten ==
    /\ enPc = "exited"
    /\ LoopRan
    /\ \E t \in RaisingTraces : t \in Range(enEnv.traceIds)
    /\ \E t \in Range(enEnv.traceIds) \ RaisingTraces : disk[t] # before[t]

-----------------------------------------------------------------------------
(* Properties of the enrichment record (runner.ts, enrich.ts) *)

\* run.ts writes the artifact runScenario returned
RunnerWriteStep == enPc = "built" /\ enPc' = "start"

\* the enrichment record of a trace file agrees with the tool calls and the logs of
\* the file
RecordAgrees(file) ==
    LET e == file.enrichment
    IN  /\ e.expected_workers = InferExpectedWorkers(file.tool_calls)
        /\ StrictlySorted(e.actual_workers)
        /\ Range(e.actual_workers) = DOMAIN file.server_logs
        /\ StrictlySorted(e.missing_workers)
        /\ Range(e.missing_workers) = Range(e.expected_workers) \ Range(e.actual_workers)

\* C27: the enrichment record an enrichment pass persists (the initial enrichment of
\* the runner with mode "initial", a re-enrichment with mode "reenrich") carries that
\* mode and the number of fetchWorkerLogs calls the pass made, its expected workers are
\* those inferred from the tool calls of the artifact it is stored in, its actual
\* workers the sorted services of the stored server_logs, its missing workers the
\* expected ones that are not actual; every record on disk agrees with its artifact,
\* when the command starts and after every change of the disk.
C27_EnrichmentRecordConsistent ==
    [][ /\ (RunnerWriteStep /\ enEnv.credentials) =>
             LET file == disk'[EnrichTraceIds[1]]
             IN  /\ file.enrichment.present
                 /\ file.enrichment.mode = "initial"
                 /\ file.enrichment.attempts = fetchCount
        /\ PersistStep =>
             LET file == disk'[Head(queue)]
             IN  /\ file.enrichment.present
                 /\ file.enrichment.mode = "reenrich"
                 /\ file.enrichment.attempts = fetchCount
        /\ (disk' # disk \/ enPc = "start") =>
             \A t \in DOMAIN disk' :
                 (disk'[t].present /\ disk'[t].enrichment.present) => RecordAgrees(disk'[t])
      ]_vars

\* the first trace was re-enriched in two attempts that left a worker missing, the
\* second trace still has the record of its initial enrichment
C27_Witness ==
    /\ disk[EnrichTraceIds[1]].present
    /\ disk[EnrichTraceIds[1]].enrichment.mode = "reenrich"
    /\ disk[EnrichTraceIds[1]].enrichment.attempts = 2
    /\ Len(disk[EnrichTraceIds[1]].enrichment.missing_workers) > 0
    /\ Len(disk[EnrichTraceIds[1]].enrichment.actual_workers) > 0
    /\ disk[EnrichTraceIds[2]].present
    /\ disk[EnrichTraceIds[2]].enrichment.mode = "initial"

\* the initial enrichment of the first trace found its logs at the second attempt
InitialFoundAtSecondAttempt ==
    /\ enPc = "start"
    /\ disk[EnrichTraceIds[1]].present
    /\ disk[EnrichTraceIds[1]].enrichment.mode = "initial"
    /\ disk[EnrichTraceIds[1]].enrichment.attempts = 2
    /\ disk[EnrichTraceIds[1]].enrichment.actual_workers = << "fantasy-mcp" >>
    /\ disk[EnrichTraceIds[1]].enrichment.missing_workers = << "auth-worker" >>

\* the initial enrichment of the first trace gave up at its ceiling without logs
InitialGaveUp ==
    /\ enPc = "start"
    /\ disk[EnrichTraceIds[1]].present
    /\ disk[EnrichTraceIds[1]].enrichment.mode = "initial"
    /\ disk[EnrichTraceIds[1]].enrichment.attempts = LOG_ENRICHMENT_ATTEMPTS
    /\ disk[EnrichTraceIds[1]].enrichment.actual_workers = << >>

-----------------------------------------------------------------------------
(* Properties of the per-service log files (artifacts.ts) *)

\* C28: after every write of a trace artifact the files of the logs directory are
\* exactly the services of the server_logs mapping just written, each with the
\* events of its service; no file of a service that is no longer in the mapping is
\* left, also when the mapping is empty or absent.
C28_LogFilesMatchMapping ==
    wrCount > 0 =>
        /\ DOMAIN wrLogsDir = DOMAIN wrTrace.server_logs
        /\ \A w \in DOMAIN wrLogsDir : wrLogsDir[w] = wrTrace.server_logs[w]

\* as long as the mapping written has a service, the files are those of the mapping
LogFilesMatchNonEmptyMapping ==
    (wrCount > 0 /\ Cardinality(DOMAIN wrTrace.server_logs) > 0) =>
        /\ DOMAIN wrLogsDir = DOMAIN wrTrace.server_logs
        /\ \A w \in DOMAIN wrLogsDir : wrLogsDir[w] = wrTrace.server_logs[w]

\* a service was dropped from a mapping that kept another one, and its file is gone
DroppedServiceFileDeleted ==
    /\ wrCount = 2
    /\ DOMAIN wrTrace.server_logs = { "fantasy-mcp" }
    /\ DOMAIN wrLogsDir = { "fantasy-mcp" }

\* an artifact without server_logs was written over one with logs: the files stay
OrphanedLogFiles ==
    /\ wrCount = 2
    /\ ~wrTrace.has_logs
    /\ DOMAIN wrLogsDir = { "fantasy-mcp", "auth-worker" }

-----------------------------------------------------------------------------
(* Properties of a finished run (run.ts, accept.ts) *)

\* C30: once an eval run has finished, every trace id of its manifest has a trace.json,
\* also the trace ids of the scenarios that errored; accept run on the finished run
\* does not end on a missing trace artifact: it writes the acceptance summary, with
\* RUN_HAS_ERRORS among the fail reasons when the summary of the run has errored > 0.
C30_FinishedRunIsAcceptable ==
    /\ runPc \in {"finished", "accepted"} => Range(manifest.trace_ids) \subseteq written
    /\ (runPc = "accepted" /\ pc = "exited" /\ runDir.arg) =>
           /\ acceptance.written
           /\ summary.errored > 0 => "RUN_HAS_ERRORS" \in FailCodes

\* accept run on a finished run in which no scenario errored writes its summary
CleanRunIsAcceptable ==
    /\ (runPc \in {"finished", "accepted"} /\ summary.errored = 0) =>
           Range(manifest.trace_ids) \subseteq written
    /\ (runPc = "accepted" /\ pc = "exited" /\ runDir.arg /\ summary.errored = 0) =>
           acceptance.written

\* accept run on a finished run in which a scenario errored never writes its summary
ErroredRunIsNeverAssessed ==
    (runPc = "accepted" /\ summary.errored > 0) => ~acceptance.written

\* accept has ended on the missing artifact of the second scenario, which errored
AcceptEndedOnMissingArtifact ==
    /\ runPc = "accepted"
    /\ pc = "exited"
    /\ runDir.arg
    /\ results = << "ok", "error", "ok" >>
    /\ Len(assessments) = 1
    /\ ~acceptance.written
    /\ exitCode = "1"

====
